---- MODULE Spec2Model ----
(***************************************************************************)
(* Bootstrap client of a massa node: the failover controller get_state,   *)
(* the session driver bootstrap_from_server and the streaming state sync  *)
(* stream_final_state (massa-bootstrap/src/client.rs).                    *)
(*                                                                         *)
(* The client is one cooperative task.  A state of the model is either a   *)
(* suspension point (an await on a connect, a timed read, a timed write or *)
(* the sleep) or a point inside the synchronous application of one         *)
(* FinalStatePart, which the code runs under the writer guard of the       *)
(* final state.  An action is the completion of the pending await followed *)
(* by the code up to the next await (or up to the next step of the part    *)
(* application).  The servers, the network and the timers are the          *)
(* environment: every outcome of an await is drawn with \E.                *)
(***************************************************************************)
EXTENDS Integers, Sequences, FiniteSets, TLC

(***************************************************************************)
(* Bounds of the model                                                     *)
(***************************************************************************)
\* servers of the longest configured bootstrap_list
NumServers == 2
\* FinalStatePart messages applied in full during one get_state call
MaxParts == 2
\* SlotTooOld messages received during one get_state call
MaxTooOld == 1
\* cfg.max_ping, in the time unit of Times
MaxPing == 1

(***************************************************************************)
(* Values                                                                  *)
(***************************************************************************)
\* Option::None; Some(x) is x itself, x >= 1
None == 0
\* a chunk the append step rejects (its `?` returns the error)
BadData == -1

Servers == 1 .. NumServers
\* chunk identifiers: the data of one part of the ledger, of the async pool,
\* of the PoS cycle history or of the deferred credits
Data == {1, 2}
\* readings of MassaTime::now and server_time values of BootstrapTime
Times == {1, 3}
ServerTimes == {2, 10, 11}

Range(s) == {s[i] : i \in 1 .. Len(s)}

\* the resume cursor with every field absent (client.rs 121-127, 429-435)
AllAbsent ==
    [last_key |-> None, slot |-> None, last_async_message_id |-> None,
     last_cycle |-> None, last_credits_slot |-> None]

\* BootstrapClientMessage, the variants the client builds
AskFinalStatePart(c) == [kind |-> "AskFinalStatePart", cursor |-> c, error |-> ""]
AskBootstrapPeers == [kind |-> "AskBootstrapPeers", cursor |-> AllAbsent, error |-> ""]
AskConsensusState == [kind |-> "AskConsensusState", cursor |-> AllAbsent, error |-> ""]
BootstrapSuccess == [kind |-> "BootstrapSuccess", cursor |-> AllAbsent, error |-> ""]
BootstrapErrorMsg(e) == [kind |-> "BootstrapError", cursor |-> AllAbsent, error |-> e]
\* the frame written by BootstrapClientBinder::handshake (no ClientMessage)
HandshakeFrame == [kind |-> "Handshake", cursor |-> AllAbsent, error |-> ""]

AskKinds == {"AskFinalStatePart", "AskBootstrapPeers", "AskConsensusState", "BootstrapSuccess"}

\* BootstrapError variants the session can end with
ReceivedError == "ReceivedError"
UnexpectedServerMessage == "UnexpectedServerMessage"
IoTimedOut == "IoError(TimedOut)"
GeneralError == "GeneralError"
IncompatibleVersionError == "IncompatibleVersionError"
\* the texts a server puts in BootstrapError, and the text of client.rs 165
ServerTexts == {"banned", "too many connections"}
NoSlotsText == "no slots available"
\* what client.next() / client.send() / handshake() themselves can fail with
BinderErrors == {"SignatureError"}

\* one (changes_slot, changes) entry of final_state_changes; roll_ok tells
\* whether pos_state.apply_changes accepts changes.roll_state_changes
Change(s, ok) == [changes_slot |-> s, roll_ok |-> ok]
\* the list of a valid part at slot s (none at slot 1, two entries at slot
\* 2), and a list whose second entry fails
ValidChangeList(s) == IF s = 1 THEN <<>> ELSE <<Change(2, TRUE), Change(1, TRUE)>>
FailingChangeList == <<Change(1, TRUE), Change(2, FALSE)>>

\* BootstrapServerMessage::FinalStatePart.  The four chunks of a part carry
\* the same identifier d; bad in 1..4 makes that chunk one its append rejects.
Chunk(d, bad, i) == IF bad = i THEN BadData ELSE d
MkPart(d, bad, s, ch) ==
    [ledger_data |-> Chunk(d, bad, 1), async_pool_part |-> Chunk(d, bad, 2),
     pos_cycle_part |-> Chunk(d, bad, 3), pos_credits_part |-> Chunk(d, bad, 4),
     slot |-> s, final_state_changes |-> ch]
\* the parts a correct server sends: every chunk and every change applies.
\* The servers hold a state of two chunks; chunk d is served at slot d.
ValidParts == {MkPart(d, 0, d, ValidChangeList(d)) : d \in Data}
\* the parts any server can send: also one with a rejected chunk, for each of
\* the four appends, and one whose roll-state changes do not apply
FinalStateParts ==
    ValidParts \cup {MkPart(1, bad, 1, <<>>) : bad \in 1 .. 4}
        \cup {MkPart(1, 0, 1, FailingChangeList)}
NoPart == MkPart(1, 0, 1, <<>>)

\* BootstrapServerMessage variants
ServerMsgKinds ==
    {"BootstrapTime", "FinalStatePart", "FinalStateFinished", "SlotTooOld",
     "BootstrapPeers", "ConsensusState", "BootstrapError"}

(***************************************************************************)
(* The final-state store (massa_final_state, massa_ledger, massa_async_pool *)
(* and massa_pos: crates outside the three source files).  Each append      *)
(* either rejects its chunk or stores it and returns the new cursor.        *)
(***************************************************************************)
EmptyFinalState ==
    [ledger |-> {}, async_pool |-> {}, cycle_history |-> {}, deferred_credits |-> {},
     ledger_changes |-> None, pool_changes |-> None, roll_changes |-> None,
     slot |-> None, initial_ledger |-> FALSE, initial_cycle |-> FALSE]

set_ledger_part(fs, data) ==
    IF data = BadData THEN [ok |-> FALSE, fs |-> fs, last |-> None]
    ELSE [ok |-> TRUE, fs |-> [fs EXCEPT !.ledger = @ \cup {data}], last |-> data]

set_pool_part(fs, data) ==
    IF data = BadData THEN [ok |-> FALSE, fs |-> fs, last |-> None]
    ELSE [ok |-> TRUE, fs |-> [fs EXCEPT !.async_pool = @ \cup {data}], last |-> data]

set_cycle_history_part(fs, data) ==
    IF data = BadData THEN [ok |-> FALSE, fs |-> fs, last |-> None]
    ELSE [ok |-> TRUE, fs |-> [fs EXCEPT !.cycle_history = @ \cup {data}], last |-> data]

set_deferred_credits_part(fs, data) ==
    IF data = BadData THEN [ok |-> FALSE, fs |-> fs, last |-> None]
    ELSE [ok |-> TRUE, fs |-> [fs EXCEPT !.deferred_credits = @ \cup {data}], last |-> data]

\* one iteration of the loop of client.rs 81-95: ledger.apply_changes,
\* async_pool.apply_changes_unchecked, then pos_state.apply_changes(..).unwrap()
apply_change_entry(fs, c) ==
    LET f1 == [fs EXCEPT !.ledger_changes = c.changes_slot, !.pool_changes = c.changes_slot]
    IN  IF c.roll_ok
        THEN [ok |-> TRUE, fs |-> [f1 EXCEPT !.roll_changes = c.changes_slot]]
        ELSE [ok |-> FALSE, fs |-> f1]

\* variant of apply_final_state_changes: a list of two entries is applied
\* last entry first
M_apply_final_state_changes(fs, changes) ==
    IF changes = <<>> THEN [ok |-> TRUE, fs |-> fs]
    ELSE LET r == apply_change_entry(fs, changes[Len(changes)])
         IN  IF r.ok /\ Len(changes) > 1 THEN apply_change_entry(r.fs, changes[1]) ELSE r

\* the whole loop, in the order of the list; it stops at the first unwrap
\* that panics
RECURSIVE apply_final_state_changes(_, _)
apply_final_state_changes(fs, changes) ==
    IF changes = <<>> THEN [ok |-> TRUE, fs |-> fs]
    ELSE LET r == apply_change_entry(fs, Head(changes))
         IN  IF r.ok THEN apply_final_state_changes(r.fs, Tail(changes)) ELSE r

(***************************************************************************)
(* State                                                                   *)
(***************************************************************************)
VARIABLES
    cfg,                      \* BootstrapConfig and the arguments of get_state
    pc,                       \* where the task is
    shuffled_list,            \* get_state: shuffled_list
    idx,                      \* get_state: position of the for loop in shuffled_list
    srv,                      \* the server of the current attempt (0: none yet)
    next_bootstrap_message,   \* get_state: next_bootstrap_message
    global_bootstrap_state,   \* peers, graph, compensation_millis
    final_state,              \* the store behind Arc<RwLock<FinalState>>
    guard,                    \* the writer guard of final_state is held
    wire,                     \* frames the client started to write on the current connection
    locals,                   \* locals of the session: send_time_uncompensated, the part being applied, the values returned by its appends
    err,                      \* the error the current attempt ended with ("" if none)
    past_end,                 \* MassaTime::now() > end_timestamp
    facts,                    \* history of the current connection
    applied,                  \* history: the parts applied in full
    resume,                   \* history: a session failed while streaming and no later session has written an ask yet
    budget,                   \* SlotTooOld messages received so far
    good,                     \* servers that accept, stay silent in the probe and answer every phase correctly
    binder,                   \* one BootstrapClientBinder with its connection, followed on its own (BinderSpec)
    blk                       \* one run of the block round trip of models/src/block.rs, followed on its own (BlockSpec, ContentSpec)

vars ==
    <<cfg, binder, blk, pc, shuffled_list, idx, srv, next_bootstrap_message, global_bootstrap_state,
      final_state, guard, wire, locals, err, past_end, facts, applied, resume, budget, good>>

\* the bootstrap lists of the model: the first n servers, n = 0 .. NumServers
BootstrapLists == {[i \in 1 .. n |-> i] : n \in 0 .. NumServers}

\* the orders rand's shuffle can produce
Permutations_of(list) ==
    {p \in [1 .. Len(list) -> Range(list)] :
        \A i, j \in 1 .. Len(list) : p[i] = p[j] => i = j}

NoLocals ==
    [send_time |-> 0, server_time |-> 0, recv_time |-> 0, part |-> NoPart, last_key |-> None,
     last_last_async_id |-> None, last_cycle |-> None, last_credits_slot |-> None]

NoFacts ==
    [probe_timed_out |-> FALSE, time_ok |-> FALSE, ping_ok |-> FALSE,
     got_error_msg |-> FALSE, comp_stored |-> FALSE, phase |-> "none",
     bad_msg |-> "", server_text |-> "", text |-> ""]

\* GlobalBootstrapState::new
NewGlobalBootstrapState == [peers |-> None, graph |-> None, compensation_millis |-> 0]

Configs ==
    [bootstrap_list : BootstrapLists, before_genesis : BOOLEAN,
     end_timestamp : BOOLEAN, enable_clock_synchronization : BOOLEAN]

InitRest ==
    /\ pc = "start"
    /\ shuffled_list = <<>>
    /\ idx = 0
    /\ srv = 0
    /\ next_bootstrap_message = AskFinalStatePart(AllAbsent)
    /\ global_bootstrap_state = NewGlobalBootstrapState
    /\ final_state = EmptyFinalState
    /\ guard = FALSE
    /\ wire = <<>>
    /\ locals = NoLocals
    /\ err = ""
    /\ past_end = FALSE
    /\ facts = NoFacts
    /\ applied = [n |-> 0, cursor |-> AllAbsent, too_old |-> FALSE]
    /\ resume = FALSE
    /\ budget = 0

\* get_state is not followed into the binder: Spec leaves binder as it is
NoBinder == [stage |-> "unused"]

\* get_state builds no block: Spec leaves blk as it is
NoBlock == [stage |-> "unused"]

Init ==
    /\ cfg \in Configs
    /\ good = {}
    /\ binder = NoBinder
    /\ blk = NoBlock
    /\ InitRest

(***************************************************************************)
(* Helpers of the session                                                  *)
(***************************************************************************)
IsGood == srv \in good

\* MassaTime::saturating_sub
saturating_sub(a, b) == IF a >= b THEN a - b ELSE 0

\* i64::MAX, scaled to the time unit of Times and ServerTimes
I64_MAX == 7

\* client.rs 234-253: the value stored as compensation_millis, or the error
\* of checked_sub / try_into
compensation(enable, server_time, recv_time, ping) ==
    IF ~enable THEN [ok |-> TRUE, millis |-> 0]
    ELSE IF ping \div 2 > recv_time THEN [ok |-> FALSE, millis |-> 0]
    ELSE LET local_time == recv_time - (ping \div 2)
             m == IF server_time >= local_time
                  THEN saturating_sub(server_time, local_time)
                  ELSE saturating_sub(local_time, server_time)
         IN  IF m > I64_MAX THEN [ok |-> FALSE, millis |-> 0]
             ELSE [ok |-> TRUE, millis |-> m]

\* variant of PingTooHigh: the ping checks are gone
M_PingTooHigh(ping) == FALSE

\* client.rs 188 and 227: the ping check
PingTooHigh(ping) == ping > MaxPing

\* variant of TooOldRestart: SlotTooOld makes the next message an error
M_TooOldRestart_Error == BootstrapErrorMsg("slot too old")

\* variant of TooOldRestart: SlotTooOld leaves the cursor as it is
M_TooOldRestart == next_bootstrap_message

\* client.rs 121-127: what SlotTooOld makes of next_bootstrap_message
TooOldRestart == AskFinalStatePart(AllAbsent)

HasAsk(w) == \E i \in 1 .. Len(w) : w[i].kind \in AskKinds
FirstAsk(w) == w[CHOOSE i \in 1 .. Len(w) : w[i].kind \in AskKinds /\ \A j \in 1 .. i - 1 : w[j].kind \notin AskKinds]

\* history: a session that fails before it wrote an ask leaves resume as it
\* is; one that wrote an ask leaves it set iff it fails while streaming
ResumeAfterFailure ==
    IF ~HasAsk(wire) THEN resume ELSE facts.phase = "stream"

\* variant of AfterFailedAttempt: the sleep is taken only after the last
\* server of the list
M_AfterFailedAttempt ==
    IF idx < Len(shuffled_list)
    THEN /\ pc' = "for_head"
         /\ idx' = idx + 1
         /\ UNCHANGED shuffled_list
    ELSE /\ pc' = "sleeping"
         /\ UNCHANGED <<idx, shuffled_list>>

\* get_state 466-467: the end of the body of the for loop
AfterFailedAttempt ==
    /\ pc' = "sleeping"
    /\ UNCHANGED <<idx, shuffled_list>>

\* variant of FailSession: no BootstrapError is ever written to the server
M_FailSession(e) ==
    /\ err' = e
    /\ locals' = NoLocals
    /\ resume' = ResumeAfterFailure
    /\ wire' = wire
    /\ AfterFailedAttempt

\* variant of FailSession: an incompatible version is returned to the caller
\* of get_state
M_FailSession_Fatal(e) ==
    /\ err' = e
    /\ locals' = NoLocals
    /\ resume' = ResumeAfterFailure
    /\ UNCHANGED <<idx, shuffled_list>>
    /\ IF e = IncompatibleVersionError
       THEN /\ wire' = wire
            /\ pc' = "returned_err"
       ELSE IF e = ReceivedError
       THEN /\ wire' = wire
            /\ pc' = "sleeping"
       ELSE /\ wire' = Append(wire, BootstrapErrorMsg(e))
            /\ pc' = "error_send"

\* get_state 450-455: bootstrap_from_server returned Err(e); its locals are gone
FailSession(e) ==
    /\ err' = e
    /\ locals' = NoLocals
    /\ resume' = ResumeAfterFailure
    /\ IF e = ReceivedError
       THEN /\ wire' = wire
            /\ AfterFailedAttempt
       ELSE /\ wire' = Append(wire, BootstrapErrorMsg(e))
            /\ pc' = "error_send"
            /\ UNCHANGED <<idx, shuffled_list>>

\* the outcomes of a timed client.send / client.handshake that end the session
SendFailures == {IoTimedOut} \cup BinderErrors
\* the outcomes of a timed client.next that end the session before a message
ReadFailures == {IoTimedOut} \cup BinderErrors

(***************************************************************************)
(* get_state: before the loop                                              *)
(***************************************************************************)
\* variant of GetState_Start: the list is checked before the genesis
\* timestamp
M_GetState_Start ==
    /\ pc = "start"
    /\ IF cfg.bootstrap_list = <<>>
       THEN /\ pc' = "returned_err"
            /\ err' = GeneralError
            /\ UNCHANGED <<guard, shuffled_list, idx, next_bootstrap_message, global_bootstrap_state>>
       ELSE IF cfg.before_genesis
       THEN /\ guard' = TRUE
            /\ pc' = "init_ledger"
            /\ UNCHANGED <<shuffled_list, idx, next_bootstrap_message, global_bootstrap_state, err>>
       ELSE /\ shuffled_list' \in Permutations_of(cfg.bootstrap_list)
            /\ idx' = 1
            /\ next_bootstrap_message' = AskFinalStatePart(AllAbsent)
            /\ global_bootstrap_state' = NewGlobalBootstrapState
            /\ pc' = "for_head"
            /\ UNCHANGED <<guard, err>>
    /\ UNCHANGED <<cfg, binder, blk, srv, final_state, wire, locals, past_end, facts, applied, resume, budget, good>>

\* client.rs 399-436
GetState_Start ==
    /\ pc = "start"
    /\ IF cfg.before_genesis
       THEN /\ guard' = TRUE
            /\ pc' = "init_ledger"
            /\ UNCHANGED <<shuffled_list, idx, next_bootstrap_message, global_bootstrap_state, err>>
       ELSE IF cfg.bootstrap_list = <<>>
       THEN /\ pc' = "returned_err"
            /\ err' = GeneralError
            /\ UNCHANGED <<guard, shuffled_list, idx, next_bootstrap_message, global_bootstrap_state>>
       ELSE /\ shuffled_list' \in Permutations_of(cfg.bootstrap_list)
            /\ idx' = 1
            /\ next_bootstrap_message' = AskFinalStatePart(AllAbsent)
            /\ global_bootstrap_state' = NewGlobalBootstrapState
            /\ pc' = "for_head"
            /\ UNCHANGED <<guard, err>>
    /\ UNCHANGED <<cfg, binder, blk, srv, final_state, wire, locals, past_end, facts, applied, resume, budget, good>>

\* client.rs 405-412: load_initial_ledger under the guard
Init_LoadLedger ==
    /\ pc = "init_ledger"
    /\ \E ok \in BOOLEAN :
        IF ok
        THEN /\ final_state' = [final_state EXCEPT !.initial_ledger = TRUE]
             /\ pc' = "init_cycle"
             /\ UNCHANGED <<guard, err>>
        ELSE /\ guard' = FALSE
             /\ err' = GeneralError
             /\ pc' = "returned_err"
             /\ UNCHANGED final_state
    /\ UNCHANGED <<cfg, binder, blk, shuffled_list, idx, srv, next_bootstrap_message, global_bootstrap_state,
                   wire, locals, past_end, facts, applied, resume, budget, good>>

\* client.rs 414-416: create_initial_cycle, the guard is dropped, Ok is returned
Init_CreateCycle ==
    /\ pc = "init_cycle"
    /\ final_state' = [final_state EXCEPT !.initial_cycle = TRUE]
    /\ guard' = FALSE
    /\ global_bootstrap_state' = NewGlobalBootstrapState
    /\ pc' = "returned_ok"
    /\ UNCHANGED <<cfg, binder, blk, shuffled_list, idx, srv, next_bootstrap_message, wire, locals, err,
                   past_end, facts, applied, resume, budget, good>>

(***************************************************************************)
(* get_state: the loop over the servers                                    *)
(***************************************************************************)
\* variant of For_Head: next_bootstrap_message is declared inside the loop,
\* every attempt starts from the all-absent cursor
M_For_Head ==
    /\ pc = "for_head"
    /\ \E late \in {l \in BOOLEAN : (past_end => l) /\ (l => cfg.end_timestamp)} :
        /\ past_end' = late
        /\ IF late
           THEN /\ pc' = "panicked"
                /\ UNCHANGED srv
           ELSE /\ srv' = shuffled_list[idx]
                /\ pc' = "connecting"
        /\ UNCHANGED <<wire, facts, err, locals>>
    /\ next_bootstrap_message' = AskFinalStatePart(AllAbsent)
    /\ UNCHANGED <<cfg, binder, blk, shuffled_list, idx, global_bootstrap_state,
                   final_state, guard, applied, resume, budget, good>>

\* client.rs 438-445: the end_timestamp check, then connect_to_server starts.
\* late is the reading "now > end"; time does not go back.
For_Head ==
    /\ pc = "for_head"
    /\ \E late \in {l \in BOOLEAN : (past_end => l) /\ (l => cfg.end_timestamp)} :
        /\ past_end' = late
        /\ IF late
           THEN /\ pc' = "panicked"
                /\ UNCHANGED srv
           ELSE /\ srv' = shuffled_list[idx]
                /\ pc' = "connecting"
        /\ UNCHANGED <<wire, facts, err, locals>>
    /\ UNCHANGED <<cfg, binder, blk, shuffled_list, idx, next_bootstrap_message, global_bootstrap_state,
                   final_state, guard, applied, resume, budget, good>>

\* client.rs 445-447, 461-463 and connect_to_server 352-386: the connection
\* is established and the error probe starts, or the attempt ends
Connect_Done ==
    /\ pc = "connecting"
    /\ \/ /\ pc' = "probe"
          /\ facts' = [facts EXCEPT !.phase = "probe"]
          /\ UNCHANGED <<err, idx, shuffled_list>>
       \/ /\ ~IsGood
          /\ err' = "ConnectError"
          /\ AfterFailedAttempt
          /\ UNCHANGED facts
    /\ UNCHANGED <<cfg, binder, blk, srv, next_bootstrap_message, global_bootstrap_state, final_state, guard,
                   wire, locals, past_end, applied, resume, budget, good>>

\* client.rs 454-455: the send of BootstrapError ended, whatever its outcome
ErrorSend_Done ==
    /\ pc = "error_send"
    /\ AfterFailedAttempt
    /\ UNCHANGED <<cfg, binder, blk, srv, next_bootstrap_message, global_bootstrap_state, final_state, guard,
                   wire, locals, err, past_end, facts, applied, resume, budget, good>>

\* client.rs 467, 437-438: the sleep ended; the for loop takes the next
\* server, or the outer loop starts the same list again.  The connection of
\* the failed attempt is gone (client.rs 460).
Sleep_Done ==
    /\ pc = "sleeping"
    /\ idx' = IF idx < Len(shuffled_list) THEN idx + 1 ELSE 1
    /\ srv' = 0
    /\ wire' = <<>>
    /\ facts' = NoFacts
    /\ err' = ""
    /\ pc' = "for_head"
    /\ UNCHANGED <<cfg, binder, blk, shuffled_list, next_bootstrap_message, global_bootstrap_state,
                   final_state, guard, locals, past_end, applied, resume, budget, good>>

(***************************************************************************)
(* bootstrap_from_server: error probe, handshake, clock                    *)
(***************************************************************************)
\* what an action that ends the session with FailSession leaves alone
\* besides guard and facts
FailKeep ==
    <<cfg, binder, blk, srv, next_bootstrap_message, global_bootstrap_state, final_state,
      past_end, applied, budget, good>>

\* client.rs 158-174: the outcome of the error probe; on its timeout
\* send_time_uncompensated is read and the handshake write starts
Probe_Done ==
    /\ pc = "probe"
    /\ \/ /\ \E t \in Times : locals' = [locals EXCEPT !.send_time = t]
          /\ wire' = Append(wire, HandshakeFrame)
          /\ facts' = [facts EXCEPT !.probe_timed_out = TRUE, !.phase = "handshake"]
          /\ pc' = "handshake"
          /\ UNCHANGED <<cfg, binder, blk, srv, next_bootstrap_message, global_bootstrap_state, final_state,
                         past_end, applied, budget, good, err, resume, idx, shuffled_list>>
       \/ /\ ~IsGood
          /\ \E e \in BinderErrors : FailSession(e)
          /\ UNCHANGED <<FailKeep, facts>>
       \/ /\ ~IsGood
          /\ \E error \in ServerTexts :
                facts' = [facts EXCEPT !.got_error_msg = TRUE, !.server_text = error,
                                       !.text = NoSlotsText]
          /\ FailSession(ReceivedError)
          /\ UNCHANGED FailKeep
       \/ /\ ~IsGood
          /\ \E kind \in {"BootstrapTime", "FinalStateFinished"} :
                facts' = [facts EXCEPT !.bad_msg = kind]
          /\ FailSession(UnexpectedServerMessage)
          /\ UNCHANGED FailKeep
    /\ UNCHANGED guard

\* client.rs 174-196: the outcome of the handshake write, the first ping
\* check, then the read of BootstrapTime starts
Handshake_Done ==
    /\ pc = "handshake"
    /\ \/ /\ ~IsGood
          /\ \E e \in SendFailures : FailSession(e)
          /\ UNCHANGED <<FailKeep, facts>>
       \/ \E now \in Times :
            /\ IsGood => saturating_sub(now, locals.send_time) <= MaxPing
            /\ IF PingTooHigh(saturating_sub(now, locals.send_time))
               THEN /\ FailSession(GeneralError)
                    /\ UNCHANGED <<FailKeep, facts>>
               ELSE /\ pc' = "clock"
                    /\ facts' = [facts EXCEPT !.phase = "clock"]
                    /\ UNCHANGED <<FailKeep, locals, err, resume, wire, idx, shuffled_list>>
    /\ UNCHANGED guard

\* client.rs 196-259: the outcome of the read of BootstrapTime, the version
\* check, the second ping check, the compensation; then the ask loop is entered
Clock_Done ==
    /\ pc = "clock"
    /\ \/ /\ ~IsGood
          /\ \E e \in ReadFailures : FailSession(e)
          /\ UNCHANGED <<FailKeep, facts>>
       \/ \E server_time \in ServerTimes, compatible \in BOOLEAN, recv_time \in Times :
            LET ping == saturating_sub(recv_time, locals.send_time)
                c == compensation(cfg.enable_clock_synchronization, server_time, recv_time, ping)
            IN  /\ IsGood => (compatible /\ ping <= MaxPing /\ c.ok)
                /\ IF ~compatible
                   THEN /\ FailSession(IncompatibleVersionError)
                        /\ UNCHANGED <<FailKeep, facts>>
                   ELSE IF PingTooHigh(ping) \/ ~c.ok
                   THEN /\ FailSession(GeneralError)
                        /\ facts' = [facts EXCEPT !.time_ok = TRUE, !.ping_ok = (ping <= MaxPing)]
                        /\ UNCHANGED FailKeep
                   ELSE /\ global_bootstrap_state' =
                               [global_bootstrap_state EXCEPT !.compensation_millis = c.millis]
                        /\ facts' = [facts EXCEPT !.time_ok = TRUE, !.ping_ok = (ping <= MaxPing),
                                                  !.comp_stored = TRUE, !.phase = "loop"]
                        /\ locals' = [locals EXCEPT !.server_time = server_time,
                                                     !.recv_time = recv_time]
                        /\ pc' = "loop"
                        /\ UNCHANGED <<cfg, binder, blk, srv, next_bootstrap_message, final_state,
                                       past_end, applied, budget, good, err, resume, wire, idx,
                                       shuffled_list>>
       \/ /\ ~IsGood
          /\ \E error \in ServerTexts :
                facts' = [facts EXCEPT !.got_error_msg = TRUE, !.server_text = error,
                                       !.text = error]
          /\ FailSession(ReceivedError)
          /\ UNCHANGED FailKeep
       \/ /\ ~IsGood
          /\ \E kind \in {"FinalStateFinished"} :
                facts' = [facts EXCEPT !.bad_msg = kind]
          /\ FailSession(UnexpectedServerMessage)
          /\ UNCHANGED FailKeep
    /\ UNCHANGED guard

(***************************************************************************)
(* bootstrap_from_server: the ask loop                                     *)
(***************************************************************************)
\* variant of Loop_Dispatch: the arms of AskConsensusState and of
\* BootstrapSuccess are one wildcard arm that writes BootstrapSuccess
M_Loop_Dispatch ==
    /\ pc = "loop"
    /\ LET m == next_bootstrap_message
       IN  IF m.kind = "AskFinalStatePart"
           THEN /\ wire' = Append(wire, m)
                /\ facts' = [facts EXCEPT !.phase = "stream"]
                /\ pc' = "ask_send"
           ELSE IF m.kind = "AskBootstrapPeers"
           THEN /\ wire' = Append(wire, m)
                /\ facts' = [facts EXCEPT !.phase = "peers"]
                /\ pc' = "peers_send"
           ELSE /\ wire' = Append(wire, BootstrapSuccess)
                /\ facts' = [facts EXCEPT !.phase = "success"]
                /\ pc' = "success_send"
    /\ locals' = NoLocals
    /\ UNCHANGED <<cfg, binder, blk, shuffled_list, idx, srv, next_bootstrap_message,
                   global_bootstrap_state, final_state, guard,
                   err, past_end, applied, resume, budget, good>>

\* client.rs 259-261, 265, 284, 303-312, 324-326 (and 34-37, 340): the match on
\* next_bootstrap_message, up to the write of the message it selects.  The
\* locals of the clock phase are not read after this point.
Loop_Dispatch ==
    /\ pc = "loop"
    /\ LET m == next_bootstrap_message
           g == global_bootstrap_state
       IN  IF m.kind = "AskFinalStatePart"
           THEN /\ wire' = Append(wire, m)
                /\ facts' = [facts EXCEPT !.phase = "stream"]
                /\ pc' = "ask_send"
                /\ UNCHANGED next_bootstrap_message
           ELSE IF m.kind = "AskBootstrapPeers"
           THEN /\ wire' = Append(wire, m)
                /\ facts' = [facts EXCEPT !.phase = "peers"]
                /\ pc' = "peers_send"
                /\ UNCHANGED next_bootstrap_message
           ELSE IF m.kind = "AskConsensusState"
           THEN /\ wire' = Append(wire, m)
                /\ facts' = [facts EXCEPT !.phase = "graph"]
                /\ pc' = "graph_send"
                /\ UNCHANGED next_bootstrap_message
           ELSE IF m.kind = "BootstrapError"
           THEN /\ pc' = "panicked"
                /\ UNCHANGED <<next_bootstrap_message, wire, facts>>
           ELSE IF g.graph = None
           THEN /\ next_bootstrap_message' = AskConsensusState
                /\ pc' = "loop"
                /\ UNCHANGED <<wire, facts>>
           ELSE IF g.peers = None
           THEN /\ next_bootstrap_message' = AskBootstrapPeers
                /\ pc' = "loop"
                /\ UNCHANGED <<wire, facts>>
           ELSE /\ wire' = Append(wire, m)
                /\ facts' = [facts EXCEPT !.phase = "success"]
                /\ pc' = "success_send"
                /\ UNCHANGED next_bootstrap_message
    /\ locals' = NoLocals
    /\ UNCHANGED <<cfg, binder, blk, shuffled_list, idx, srv, global_bootstrap_state, final_state, guard,
                   err, past_end, applied, resume, budget, good>>

\* send_client_message 340-345 for AskBootstrapPeers
Peers_Sent ==
    /\ pc = "peers_send"
    /\ \/ /\ ~IsGood
          /\ \E e \in SendFailures : FailSession(e)
          /\ UNCHANGED FailKeep
       \/ /\ pc' = "peers_read"
          /\ UNCHANGED <<FailKeep, locals, err, resume, wire, idx, shuffled_list>>
    /\ UNCHANGED <<guard, facts>>

\* send_client_message 345-349 and client.rs 274-283
Peers_Read ==
    /\ pc = "peers_read"
    /\ \/ /\ ~IsGood
          /\ \E e \in ReadFailures : FailSession(e)
          /\ UNCHANGED <<FailKeep, facts>>
       \/ /\ global_bootstrap_state' = [global_bootstrap_state EXCEPT !.peers = srv]
          /\ next_bootstrap_message' = AskConsensusState
          /\ pc' = "loop"
          /\ UNCHANGED <<cfg, binder, blk, srv, final_state, locals, past_end, applied, budget, good, err,
                         resume, wire, idx, shuffled_list, facts>>
       \/ /\ ~IsGood
          /\ \E error \in ServerTexts :
                facts' = [facts EXCEPT !.got_error_msg = TRUE, !.server_text = error,
                                       !.text = error]
          /\ FailSession(ReceivedError)
          /\ UNCHANGED FailKeep
       \/ /\ ~IsGood
          /\ \E kind \in {"BootstrapTime"} :
                facts' = [facts EXCEPT !.bad_msg = kind]
          /\ FailSession(UnexpectedServerMessage)
          /\ UNCHANGED FailKeep
    /\ UNCHANGED guard

\* send_client_message 340-345 for AskConsensusState
Graph_Sent ==
    /\ pc = "graph_send"
    /\ \/ /\ ~IsGood
          /\ \E e \in SendFailures : FailSession(e)
          /\ UNCHANGED FailKeep
       \/ /\ pc' = "graph_read"
          /\ UNCHANGED <<FailKeep, locals, err, resume, wire, idx, shuffled_list>>
    /\ UNCHANGED <<guard, facts>>

\* send_client_message 345-349 and client.rs 293-302
Graph_Read ==
    /\ pc = "graph_read"
    /\ \/ /\ ~IsGood
          /\ \E e \in ReadFailures : FailSession(e)
          /\ UNCHANGED <<FailKeep, facts>>
       \/ /\ global_bootstrap_state' = [global_bootstrap_state EXCEPT !.graph = srv]
          /\ next_bootstrap_message' = BootstrapSuccess
          /\ pc' = "loop"
          /\ UNCHANGED <<cfg, binder, blk, srv, final_state, locals, past_end, applied, budget, good, err,
                         resume, wire, idx, shuffled_list, facts>>
       \/ /\ ~IsGood
          /\ \E error \in ServerTexts :
                facts' = [facts EXCEPT !.got_error_msg = TRUE, !.server_text = error,
                                       !.text = error]
          /\ FailSession(ReceivedError)
          /\ UNCHANGED FailKeep
       \/ /\ ~IsGood
          /\ \E kind \in {"BootstrapTime"} :
                facts' = [facts EXCEPT !.bad_msg = kind]
          /\ FailSession(UnexpectedServerMessage)
          /\ UNCHANGED FailKeep
    /\ UNCHANGED guard

\* client.rs 312-330 and 456-458: the outcome of the write of
\* BootstrapSuccess; on Ok the session is DONE and get_state returns
Success_Sent ==
    /\ pc = "success_send"
    /\ \/ /\ ~IsGood
          /\ \E e \in SendFailures : FailSession(e)
          /\ UNCHANGED FailKeep
       \/ /\ pc' = "returned_ok"
          /\ UNCHANGED <<FailKeep, locals, err, resume, wire, idx, shuffled_list>>
    /\ UNCHANGED <<guard, facts>>

(***************************************************************************)
(* stream_final_state                                                      *)
(***************************************************************************)
\* client.rs 35-50: the outcome of the write of AskFinalStatePart; on Ok the
\* first read of the loop starts
Stream_AskSent ==
    /\ pc = "ask_send"
    /\ \/ /\ ~IsGood
          /\ \E e \in SendFailures : FailSession(e)
          /\ UNCHANGED FailKeep
       \/ /\ pc' = "stream_read"
          /\ UNCHANGED <<FailKeep, locals, err, resume, wire, idx, shuffled_list>>
    /\ UNCHANGED <<guard, facts>>

\* what the arms of Stream_Read that stay in the session leave alone
StreamKeep ==
    <<cfg, binder, blk, srv, global_bootstrap_state, final_state, past_end, good, err, resume, wire, idx,
      shuffled_list, facts>>

\* client.rs 50-70 and 114-135: the outcome of one read of the loop.  A
\* FinalStatePart takes the writer guard; FinalStateFinished and SlotTooOld
\* return Ok to the ask loop; every other message is the "bad message" error.
Stream_Read ==
    /\ pc = "stream_read"
    /\ \/ /\ ~IsGood
          /\ \E e \in ReadFailures : FailSession(e)
          /\ UNCHANGED <<FailKeep, guard, facts>>
       \/ /\ applied.n < MaxParts
          /\ \E part \in (IF IsGood THEN ValidParts ELSE FinalStateParts) :
                locals' = [locals EXCEPT !.part = part]
          /\ guard' = TRUE
          /\ pc' = "apply_ledger"
          /\ UNCHANGED <<StreamKeep, next_bootstrap_message, applied, budget>>
       \/ /\ next_bootstrap_message' = AskBootstrapPeers
          /\ pc' = "loop"
          /\ UNCHANGED <<StreamKeep, locals, budget, guard, applied>>
       \/ /\ budget < MaxTooOld
          /\ budget' = budget + 1
          /\ next_bootstrap_message' = TooOldRestart
          /\ applied' = [applied EXCEPT !.too_old = TRUE]
          /\ pc' = "loop"
          /\ UNCHANGED <<StreamKeep, locals, guard>>
       \/ /\ ~IsGood
          /\ \E kind \in {"BootstrapTime", "BootstrapPeers", "ConsensusState", "BootstrapError"} :
             \E error \in (IF kind = "BootstrapError" THEN ServerTexts ELSE {""}) :
                facts' = [facts EXCEPT !.got_error_msg = (kind = "BootstrapError"),
                                       !.bad_msg = kind, !.server_text = error]
          /\ FailSession(IoTimedOut)
          /\ UNCHANGED <<FailKeep, guard>>

\* what the steps of the application of a part leave alone
ApplyKeep ==
    <<cfg, binder, blk, srv, global_bootstrap_state, past_end, good, budget>>

\* variant of Apply_Failed: the appends of the failed part are taken back
M_Apply_Failed_Rollback(e) ==
    /\ guard' = FALSE
    /\ FailSession(e)
    /\ final_state' = [final_state EXCEPT !.ledger = @ \ {locals.part.ledger_data},
                                          !.async_pool = @ \ {locals.part.async_pool_part},
                                          !.cycle_history = @ \ {locals.part.pos_cycle_part}]
    /\ UNCHANGED <<ApplyKeep, next_bootstrap_message, facts, applied>>

\* variant of Apply_Failed: the early return leaves the guard held
M_Apply_Failed(e) ==
    /\ guard' = guard
    /\ FailSession(e)
    /\ UNCHANGED <<ApplyKeep, next_bootstrap_message, final_state, facts, applied>>

\* an append returned Err: the `?` returns from stream_final_state and from
\* bootstrap_from_server, the guard is dropped on the way out
Apply_Failed(e) ==
    /\ guard' = FALSE
    /\ FailSession(e)
    /\ UNCHANGED <<ApplyKeep, next_bootstrap_message, final_state, facts, applied>>

\* client.rs 71
Apply_Ledger ==
    /\ pc = "apply_ledger"
    /\ LET r == set_ledger_part(final_state, locals.part.ledger_data)
       IN  IF r.ok
           THEN /\ final_state' = r.fs
                /\ locals' = [locals EXCEPT !.last_key = r.last]
                /\ pc' = "apply_pool"
                /\ UNCHANGED <<ApplyKeep, next_bootstrap_message, guard, facts, applied, err,
                               resume, wire, idx, shuffled_list>>
           ELSE Apply_Failed("LedgerError")

\* client.rs 72-74
Apply_Pool ==
    /\ pc = "apply_pool"
    /\ LET r == set_pool_part(final_state, locals.part.async_pool_part)
       IN  IF r.ok
           THEN /\ final_state' = r.fs
                /\ locals' = [locals EXCEPT !.last_last_async_id = r.last]
                /\ pc' = "apply_cycle"
                /\ UNCHANGED <<ApplyKeep, next_bootstrap_message, guard, facts, applied, err,
                               resume, wire, idx, shuffled_list>>
           ELSE Apply_Failed("AsyncPoolError")

\* client.rs 75-77
Apply_Cycle ==
    /\ pc = "apply_cycle"
    /\ LET r == set_cycle_history_part(final_state, locals.part.pos_cycle_part)
       IN  IF r.ok
           THEN /\ final_state' = r.fs
                /\ locals' = [locals EXCEPT !.last_cycle = r.last]
                /\ pc' = "apply_credits"
                /\ UNCHANGED <<ApplyKeep, next_bootstrap_message, guard, facts, applied, err,
                               resume, wire, idx, shuffled_list>>
           ELSE Apply_Failed("ProofOfStakeError")

\* client.rs 78-80
Apply_Credits ==
    /\ pc = "apply_credits"
    /\ LET r == set_deferred_credits_part(final_state, locals.part.pos_credits_part)
       IN  IF r.ok
           THEN /\ final_state' = r.fs
                /\ locals' = [locals EXCEPT !.last_credits_slot = r.last]
                /\ pc' = "apply_changes"
                /\ UNCHANGED <<ApplyKeep, next_bootstrap_message, guard, facts, applied, err,
                               resume, wire, idx, shuffled_list>>
           ELSE Apply_Failed("ProofOfStakeError")

\* client.rs 81-95: the loop over final_state_changes; the unwrap of a failed
\* pos_state.apply_changes panics, and the unwinding drops the guard
Apply_Changes ==
    /\ pc = "apply_changes"
    /\ LET r == apply_final_state_changes(final_state, locals.part.final_state_changes)
       IN  /\ final_state' = r.fs
           /\ IF r.ok
              THEN /\ pc' = "set_slot"
                   /\ UNCHANGED guard
              ELSE /\ pc' = "panicked"
                   /\ guard' = FALSE
    /\ UNCHANGED <<ApplyKeep, next_bootstrap_message, locals, facts, applied, err, resume, wire,
                   idx, shuffled_list>>

\* variant of CursorOf: the key returned by set_ledger_part is not carried
M_CursorOf(l) ==
    [last_key |-> None, slot |-> l.part.slot,
     last_async_message_id |-> l.last_last_async_id, last_cycle |-> l.last_cycle,
     last_credits_slot |-> l.last_credits_slot]

\* the cursor built from the values the four appends returned (client.rs 106-112)
CursorOf(l) ==
    [last_key |-> l.last_key, slot |-> l.part.slot,
     last_async_message_id |-> l.last_last_async_id, last_cycle |-> l.last_cycle,
     last_credits_slot |-> l.last_credits_slot]

\* client.rs 96: the last step of the application of the part
Set_Slot ==
    /\ pc = "set_slot"
    /\ final_state' = [final_state EXCEPT !.slot = locals.part.slot]
    /\ applied' =
          [n |-> applied.n + 1,
           cursor |-> [last_key |-> locals.last_key, slot |-> locals.part.slot,
                       last_async_message_id |-> locals.last_last_async_id,
                       last_cycle |-> locals.last_cycle,
                       last_credits_slot |-> locals.last_credits_slot],
           too_old |-> FALSE]
    /\ pc' = "set_cursor"
    /\ UNCHANGED <<ApplyKeep, next_bootstrap_message, guard, locals, facts, err, resume, wire,
                   idx, shuffled_list>>

\* client.rs 106-113 and 49-50: the cursor is stored, the guard is dropped at
\* the end of the arm and the next read of the loop starts
Set_Cursor ==
    /\ pc = "set_cursor"
    /\ next_bootstrap_message' = AskFinalStatePart(CursorOf(locals))
    /\ locals' = NoLocals
    /\ guard' = FALSE
    /\ pc' = "stream_read"
    /\ UNCHANGED <<ApplyKeep, final_state, facts, applied, err, resume, wire, idx,
                   shuffled_list>>

(***************************************************************************)
(* Specifications                                                          *)
(***************************************************************************)
Next ==
    \/ GetState_Start
    \/ Init_LoadLedger
    \/ Init_CreateCycle
    \/ For_Head
    \/ Connect_Done
    \/ ErrorSend_Done
    \/ Sleep_Done
    \/ Probe_Done
    \/ Handshake_Done
    \/ Clock_Done
    \/ Loop_Dispatch
    \/ Peers_Sent
    \/ Peers_Read
    \/ Graph_Sent
    \/ Graph_Read
    \/ Success_Sent
    \/ Stream_AskSent
    \/ Stream_Read
    \/ Apply_Ledger
    \/ Apply_Pool
    \/ Apply_Cycle
    \/ Apply_Credits
    \/ Apply_Changes
    \/ Set_Slot
    \/ Set_Cursor

Spec == Init /\ [][Next]_vars

(***************************************************************************)
(* Properties of the session driver                                        *)
(***************************************************************************)
\* C1: on one connection the handshake frame is written only after the error
\* probe timed out and is the first frame; every ask (and BootstrapSuccess)
\* is written only after the handshake, after a BootstrapTime of a compatible
\* version was read and after the ping checked within max_ping; a session
\* that is DONE wrote the handshake first and BootstrapSuccess last.  This
\* does not depend on the next_bootstrap_message the session started with.
C1_SessionOrder ==
    /\ \A i \in 1 .. Len(wire) :
          /\ wire[i].kind = "Handshake" => (i = 1 /\ facts.probe_timed_out)
          /\ wire[i].kind \in AskKinds =>
                (i > 1 /\ wire[1] = HandshakeFrame /\ facts.probe_timed_out
                 /\ facts.time_ok /\ facts.ping_ok)
    /\ pc = "probe" => wire = <<>>
    /\ pc \in {"handshake", "clock"} => wire = <<HandshakeFrame>>
    /\ (pc = "returned_ok" /\ ~cfg.before_genesis) =>
          (/\ Len(wire) >= 2
           /\ wire[1] = HandshakeFrame
           /\ wire[Len(wire)] = BootstrapSuccess
           /\ facts.probe_timed_out /\ facts.time_ok /\ facts.ping_ok)

\* a session that started with next_bootstrap_message = BootstrapSuccess,
\* carried in from an earlier session, is DONE
C1_Witness ==
    /\ pc = "returned_ok"
    /\ wire = <<HandshakeFrame, BootstrapSuccess>>

\* C2: BootstrapSuccess is written, and get_state returns Ok after the
\* genesis, only when global_bootstrap_state holds both the peers and the
\* graph.
C2_SuccessNeedsBoth ==
    LET g == global_bootstrap_state
        both == g.peers # None /\ g.graph # None
    IN  /\ (pc = "returned_ok" /\ ~cfg.before_genesis) => both
        /\ pc = "success_send" => both
        /\ (\E i \in 1 .. Len(wire) : wire[i].kind = "BootstrapSuccess") => both

\* get_state returned Ok with the peers of one server and the graph of another
C2_Witness ==
    /\ pc = "returned_ok"
    /\ global_bootstrap_state.peers # None
    /\ global_bootstrap_state.graph # None
    /\ global_bootstrap_state.peers # global_bootstrap_state.graph

(***************************************************************************)
(* Properties of the streaming state sync                                  *)
(***************************************************************************)
\* the cursor of the last part that was applied in full, all-absent when
\* there is none or when SlotTooOld came after it
LastFullCursor ==
    IF applied.n = 0 \/ applied.too_old THEN AllAbsent ELSE applied.cursor

\* C3: outside the step that stores it, the cursor of next_bootstrap_message
\* names the last part applied in full (the values its four appends returned
\* and its slot, which is the slot of the final state); while the steps of a
\* part are running, and after one of them failed, it is still the cursor of
\* the part before.
C3_CursorNamesLastFullPart ==
    (next_bootstrap_message.kind = "AskFinalStatePart" /\ pc # "set_cursor") =>
        /\ next_bootstrap_message.cursor = LastFullCursor
        /\ next_bootstrap_message.cursor.slot # None =>
              next_bootstrap_message.cursor.slot = final_state.slot

\* the second part failed at its async-pool step after its ledger chunk was
\* stored; the cursor is the one of the first part
C3_Witness ==
    /\ err = "AsyncPoolError"
    /\ applied.n = 1
    /\ next_bootstrap_message = AskFinalStatePart(applied.cursor)
    /\ applied.cursor.last_key # None

\* the step writes the first ask of the connection
FirstAskWritten == ~HasAsk(wire) /\ HasAsk(wire')

\* C4 as stated: after a session failed while streaming, with k >= 1 parts
\* applied in full, the first ask of the next session that reaches the ask
\* loop is AskFinalStatePart with the cursor of the k-th part.
C4_ResumeAtLastPart ==
    [][(FirstAskWritten /\ resume /\ applied.n >= 1) =>
          wire'[Len(wire')] = AskFinalStatePart(applied.cursor)]_vars

\* from the failure of a session to the ask loop of the next one
BeforeAskLoop ==
    {"error_send", "sleeping", "for_head", "connecting", "probe", "handshake", "clock"}

\* C4, amended: the first ask of the next session carries the cursor of the
\* k-th part unless SlotTooOld was received after that part, and then it
\* carries the all-absent cursor; nothing between the failure of a session
\* and the ask loop of the next one touches next_bootstrap_message.
C4_ResumeAtLastPartOrRestart ==
    /\ [][(FirstAskWritten /\ resume /\ applied.n >= 1) =>
            wire'[Len(wire')] =
                AskFinalStatePart(IF applied.too_old THEN AllAbsent ELSE applied.cursor)]_vars
    /\ [][(pc \in BeforeAskLoop) =>
            (next_bootstrap_message' = next_bootstrap_message)]_vars

\* a new session wrote, as its first ask, the cursor of the part the failed
\* session had applied
C4_Witness ==
    /\ resume
    /\ applied.n >= 1
    /\ ~applied.too_old
    /\ pc = "ask_send"
    /\ wire = <<HandshakeFrame, AskFinalStatePart(applied.cursor)>>
    /\ applied.cursor # AllAbsent

\* C5: the step that receives SlotTooOld sets next_bootstrap_message to
\* AskFinalStatePart with every cursor field absent, leaves the final state
\* as it is and returns to the ask loop; the AskFinalStatePart written next
\* carries the all-absent cursor.
C5_SlotTooOldRestarts ==
    /\ [][budget' # budget =>
            (/\ next_bootstrap_message' = AskFinalStatePart(AllAbsent)
             /\ final_state' = final_state
             /\ pc' = "loop")]_vars
    /\ [][(Len(wire') > Len(wire) /\ applied.too_old
              /\ wire'[Len(wire')].kind = "AskFinalStatePart") =>
            wire'[Len(wire')].cursor = AllAbsent]_vars

\* SlotTooOld came after a part was applied, and the same session asked again
\* from the start
C5_Witness ==
    /\ applied.too_old
    /\ applied.n >= 1
    /\ budget = 1
    /\ pc = "ask_send"
    /\ Len(wire) >= 3
    /\ wire[Len(wire)] = AskFinalStatePart(AllAbsent)
    /\ wire[Len(wire) - 1].kind = "AskFinalStatePart"

\* the awaits of the client: connect, timed reads and writes, the sleep
SuspensionPoints ==
    {"connecting", "probe", "handshake", "clock", "ask_send", "stream_read", "peers_send",
     "peers_read", "graph_send", "graph_read", "success_send", "error_send", "sleeping"}

\* C6: the final state changes only in steps that start with the writer
\* guard held, and the guard is held at no await and at no return: it is
\* released when the part is applied and when a step fails.
C6_GuardAroundApplication ==
    /\ [](pc \in SuspensionPoints \cup {"returned_ok", "returned_err", "panicked"} => ~guard)
    /\ [][final_state' # final_state => guard]_vars

\* a part failed at its ledger step and the session is writing
\* BootstrapError, the guard released
C6_Witness ==
    /\ pc = "error_send"
    /\ err = "LedgerError"
    /\ ~guard

(***************************************************************************)
(* Properties of the failover controller                                   *)
(***************************************************************************)
\* the BootstrapError frames the client started to write on the connection
ErrorFrames == {i \in 1 .. Len(wire) : wire[i].kind = "BootstrapError"}

\* C7: when the attempt ended because the server sent BootstrapError, in
\* whatever phase, the session failed with ReceivedError and no
\* BootstrapError frame is written back before the next server is taken.
C7_ServerErrorNotEchoed ==
    (facts.got_error_msg /\ pc \in {"error_send", "sleeping"}) =>
        (err = ReceivedError /\ ErrorFrames = {})

\* C8: an attempt that ended with an error other than ReceivedError on an
\* established connection wrote exactly one BootstrapError frame, the last
\* frame of that connection, carrying the text of the error; whatever the
\* outcome of that write the controller goes on to the sleep and the next
\* server without another write; an attempt whose connection was not
\* established wrote nothing.
C8_OneErrorFrame ==
    /\ [](pc = "error_send" =>
            (/\ err \notin {"", ReceivedError, "ConnectError"}
             /\ facts.phase # "none"
             /\ ErrorFrames = {Len(wire)}
             /\ wire[Len(wire)] = BootstrapErrorMsg(err)))
    /\ [](pc = "sleeping" =>
            IF err = "ConnectError" THEN wire = <<>> /\ facts.phase = "none"
            ELSE IF err = ReceivedError THEN ErrorFrames = {}
            ELSE (/\ ErrorFrames = {Len(wire)}
                  /\ wire[Len(wire)] = BootstrapErrorMsg(err)))
    /\ [][(pc = "error_send") => (pc' = "sleeping" /\ wire' = wire /\ err' = err)]_vars

\* a read timed out during the streaming, the error frame was written and
\* the controller went on
C8_Witness ==
    /\ pc = "sleeping"
    /\ err = IoTimedOut
    /\ facts.phase = "stream"
    /\ ~facts.got_error_msg
    /\ ErrorFrames = {Len(wire)}

\* C9 as stated: within a pass the controller goes from a failed server to
\* the next one without sleeping; it sleeps only after the last server of the
\* list failed.
C9_SleepAfterPass == pc = "sleeping" => idx = Len(shuffled_list)

\* C9, amended: every failed attempt, whatever the position of its server
\* in the list, is followed by one sleep before the next attempt starts; the
\* list is shuffled once, before the first attempt, and every pass takes the
\* servers in that same order.
C9_SleepAfterEveryFailure ==
    /\ [][(pc' = "for_head" /\ pc # "for_head") => pc \in {"start", "sleeping"}]_vars
    /\ [][(pc = "sleeping") =>
            (/\ pc' = "for_head"
             /\ idx' = (IF idx < Len(shuffled_list) THEN idx + 1 ELSE 1))]_vars
    /\ [][(pc # "start") => (shuffled_list' = shuffled_list)]_vars
    /\ [][(err = "" /\ err' # "" /\ pc' # "returned_err") =>
            pc' \in {"error_send", "sleeping"}]_vars

\* the controller sleeps after the failure of a server that is not the last
\* of the list
C9_Witness ==
    /\ pc = "sleeping"
    /\ idx < Len(shuffled_list)

(***************************************************************************)
(* Liveness of the failover                                                *)
(***************************************************************************)
\* after the genesis, a non-empty list, no end_timestamp; server 1, which
\* every non-empty list holds, is a good server from the start
LiveInit ==
    /\ cfg \in {c \in Configs :
                  ~c.before_genesis /\ c.bootstrap_list # <<>> /\ ~c.end_timestamp}
    /\ good = {1}
    /\ binder = NoBinder
    /\ blk = NoBlock
    /\ InitRest

\* the steps of get_state after the genesis
LiveNext ==
    \/ GetState_Start
    \/ For_Head
    \/ Connect_Done
    \/ ErrorSend_Done
    \/ Sleep_Done
    \/ Probe_Done
    \/ Handshake_Done
    \/ Clock_Done
    \/ Loop_Dispatch
    \/ Peers_Sent
    \/ Peers_Read
    \/ Graph_Sent
    \/ Graph_Read
    \/ Success_Sent
    \/ Stream_AskSent
    \/ Stream_Read
    \/ Apply_Ledger
    \/ Apply_Pool
    \/ Apply_Cycle
    \/ Apply_Credits
    \/ Apply_Changes
    \/ Set_Slot
    \/ Set_Cursor

\* every await completes and the task keeps running
LiveSpec == LiveInit /\ [][LiveNext]_vars /\ WF_vars(LiveNext)

\* C10: after the genesis, with a non-empty list, no end_timestamp and one
\* listed server that always accepts, stays silent in the error probe and
\* answers every phase correctly, get_state eventually returns Ok.
C10_EventuallyOk == <>(pc = "returned_ok")

(***************************************************************************)
(* Properties of get_state: what it returns                                *)
(***************************************************************************)
\* C11: after the genesis, get_state returns an error exactly when the
\* bootstrap list is empty: it does so from its entry, with no attempt made
\* and the final state untouched; with a non-empty list no error of a
\* connection or of a session is returned, each one leads to the next server.
C11_OnlyNoServersReturned ==
    /\ []((~cfg.before_genesis /\ pc = "returned_err") =>
            (/\ cfg.bootstrap_list = <<>>
             /\ err = GeneralError
             /\ final_state = EmptyFinalState
             /\ wire = <<>> /\ srv = 0 /\ facts = NoFacts))
    /\ []((~cfg.before_genesis /\ cfg.bootstrap_list = <<>>) => pc \in {"start", "returned_err"})
    /\ [][(~cfg.before_genesis /\ pc' = "returned_err") => pc = "start"]_vars
    /\ [][(err = "" /\ err' # "" /\ cfg.bootstrap_list # <<>> /\ ~cfg.before_genesis) =>
            pc' \in {"error_send", "sleeping"}]_vars

\* with two servers listed, a session failed while streaming and the
\* controller, after a whole pass, connects to the first server again
C11_Witness ==
    /\ pc = "connecting"
    /\ resume
    /\ idx = 1
    /\ Len(shuffled_list) = 2
    /\ applied.n >= 1

\* C12: before the genesis get_state loads the initial ledger and creates
\* the initial cycle under the writer guard, makes no attempt on any server,
\* whatever the list, and returns peers and graph absent and a compensation
\* of 0.
C12_BeforeGenesis ==
    /\ [](cfg.before_genesis =>
            (/\ pc \in {"start", "init_ledger", "init_cycle", "returned_ok", "returned_err"}
             /\ wire = <<>> /\ srv = 0 /\ facts = NoFacts /\ shuffled_list = <<>>
             /\ pc \in {"init_ledger", "init_cycle"} => guard
             /\ pc = "returned_ok" =>
                   (/\ final_state.initial_ledger /\ final_state.initial_cycle
                    /\ ~guard
                    /\ global_bootstrap_state =
                          [peers |-> None, graph |-> None, compensation_millis |-> 0])))
    /\ [][(cfg.before_genesis /\ pc = "start") => pc' = "init_ledger"]_vars

\* get_state returned Ok before the genesis with an empty list
C12_Witness ==
    /\ cfg.before_genesis
    /\ cfg.bootstrap_list = <<>>
    /\ pc = "returned_ok"
    /\ final_state.initial_cycle

\* C13 as stated: the peers and the graph of the state get_state returns
\* were received from the server whose session reached DONE, and the
\* compensation was computed in that session.
C13_AllFromDoneServer ==
    (pc = "returned_ok" /\ ~cfg.before_genesis) =>
        (/\ global_bootstrap_state.peers = srv
         /\ global_bootstrap_state.graph = srv
         /\ facts.comp_stored)

\* C13, amended: the compensation is the one stored by the session that
\* reached DONE.  The peers and the graph are stored once each and never
\* replaced; they come from the server of the session that reached DONE
\* unless that session started at a later ask, carried in by
\* next_bootstrap_message from a session that failed after it had stored them.
C13_StateFromSessions ==
    /\ []((pc = "returned_ok" /\ ~cfg.before_genesis) =>
            (/\ facts.comp_stored
             /\ global_bootstrap_state.peers = srv
                  \/ FirstAsk(wire).kind \in {"AskConsensusState", "BootstrapSuccess"}
             /\ global_bootstrap_state.graph = srv
                  \/ FirstAsk(wire).kind = "BootstrapSuccess"))
    /\ [][global_bootstrap_state.peers # None =>
            global_bootstrap_state'.peers = global_bootstrap_state.peers]_vars
    /\ [][global_bootstrap_state.graph # None =>
            global_bootstrap_state'.graph = global_bootstrap_state.graph]_vars
    /\ [][global_bootstrap_state'.compensation_millis # global_bootstrap_state.compensation_millis =>
            (pc = "clock" /\ facts'.comp_stored)]_vars

\* get_state returned Ok from a session that only asked for the graph; the
\* peers are those of the other server
C13_Witness ==
    /\ pc = "returned_ok"
    /\ wire = <<HandshakeFrame, AskConsensusState, BootstrapSuccess>>
    /\ global_bootstrap_state.peers # srv
    /\ global_bootstrap_state.graph = srv

(***************************************************************************)
(* Clock compensation                                                      *)
(***************************************************************************)
\* the session has just passed the clock phase; locals hold what it read
ClockJustPassed == pc = "loop" /\ locals.recv_time # 0

\* the signed offset server_time - (T_recv - ping / 2)
SignedOffset ==
    LET ping == saturating_sub(locals.recv_time, locals.send_time)
    IN  locals.server_time - (locals.recv_time - (ping \div 2))

\* C20: the compensation stored by a session that passes the clock phase is
\* the signed offset server_time - (T_recv - ping/2) when
\* enable_clock_synchronization is set, negative when the server clock is
\* behind, and 0 when it is not set; a magnitude of i64::MAX is stored.
C20_SignedCompensation ==
    ClockJustPassed =>
        /\ global_bootstrap_state.compensation_millis =
              (IF cfg.enable_clock_synchronization THEN SignedOffset ELSE 0)
        /\ cfg.enable_clock_synchronization => SignedOffset <= I64_MAX /\ -SignedOffset <= I64_MAX

(***************************************************************************)
(* BootstrapClientBinder (massa-bootstrap/src/client_binder.rs), followed  *)
(* on one connection.  Byte strings are sequences of integers: the bytes   *)
(* of a body are >= 0, a hash and a signature are bracketed by negative    *)
(* marks, so that Hash and Sign are injective and no signature made with   *)
(* another key verifies.                                                   *)
(***************************************************************************)
\* operations the caller starts on one binder, the error echo included
MaxOps == 5
\* frames the server signs on one connection
MaxFrames == 2

\* the values of one byte, scaled: 0 .. ByteBase - 1
ByteBase == 4
\* bootstrap_config.max_bootstrap_message_size
MaxSizes == {2, 4}

\* Hash::compute_from
Hash(bytes) == <<-1>> \o bytes \o <<-2>>
\* a signature of the hash h made with the key k
Sign(k, h) == <<-10 - k>> \o h \o <<-3>>
\* PublicKey::verify_signature
verify_signature(pubkey, h, sig) == sig = Sign(pubkey, h)
\* Option<Hash>::None
NoHash == <<>>

\* the key pair of the server (remote_pubkey) and another key
ServerKey == 1
OtherKey == 2

RECURSIVE Power(_, _)
Power(b, e) == IF e = 0 THEN 1 ELSE b * Power(b, e - 1)

\* u32::be_bytes_min_length: the bytes needed for max_value
be_bytes_min_length(max_value) ==
    CHOOSE w \in 1 .. 4 : Power(ByteBase, w) > max_value
                           /\ \A v \in 1 .. w - 1 : Power(ByteBase, v) <= max_value

\* the big-endian digits of n on w bytes
RECURSIVE Digits(_, _)
Digits(n, w) == IF w = 0 THEN <<>> ELSE Append(Digits(n \div ByteBase, w - 1), n % ByteBase)

\* the value of big-endian digits
RECURSIVE ValueOf(_)
ValueOf(d) ==
    IF d = <<>> THEN 0 ELSE ValueOf(SubSeq(d, 1, Len(d) - 1)) * ByteBase + d[Len(d)]

\* u32::to_be_bytes_min(max_value): an error above max_value
to_be_bytes_min(n, max_value) ==
    IF n > max_value THEN [ok |-> FALSE, bytes |-> <<>>]
    ELSE [ok |-> TRUE, bytes |-> Digits(n, be_bytes_min_length(max_value))]

\* u32::from_be_bytes_min(bytes, max_value): an error above max_value
from_be_bytes_min(bytes, max_value) ==
    IF ValueOf(bytes) > max_value THEN [ok |-> FALSE, value |-> 0]
    ELSE [ok |-> TRUE, value |-> ValueOf(bytes)]

\* a body of n bytes, all c.  c = 1: a message; c = 2: BootstrapError;
\* c = 3: bytes the deserializer rejects
Body(n, c) == [i \in 1 .. n |-> c]
\* what message_deserializer makes of a body
deserialize(body) ==
    IF body = <<>> \/ body[1] = 3 THEN "DeserializeError"
    ELSE IF body[1] = 2 THEN "BootstrapError" ELSE "Message"

\* the version and the random bytes written by handshake
HandshakeBytes == <<0, 0>>

\* the bodies the server signs, and the serialized client messages
ServerBodies(max) == {Body(1, 1), Body(1, 2), Body(1, 3), Body(max, 1)}
ClientBodies(max) == {Body(1, 1), Body(max, 1), Body(max + 1, 1)}

\* the state of get_state, which BinderSpec leaves alone
MainVars ==
    <<cfg, pc, shuffled_list, idx, srv, next_bootstrap_message, global_bootstrap_state,
      final_state, guard, wire, locals, err, past_end, facts, applied, resume, budget, good>>

\* the server of the connection: the hash it chains on, the frames it signed,
\* whether it received the handshake, whether it refused before the handshake
NewServer ==
    [prev |-> NoHash, sent |-> <<>>, hs |-> FALSE, refused |-> FALSE, mirror |-> NoHash]

\* BootstrapClientBinder::new (prev_message: None) on a fresh connection, and
\* the caller at the error probe
NewBinder(max) ==
    [max |-> max, prev_message |-> NoHash, stage |-> "probe", op |-> "idle", ops |-> 0,
     sig |-> <<>>, len |-> 0, body |-> <<>>, frame |-> 0, msg_bytes |-> <<>>,
     before |-> NoHash, out0 |-> 0, last |-> "", ret |-> "", msg |-> "",
     out |-> <<>>, accepted |-> <<>>, server |-> NewServer]

BinderInit ==
    /\ cfg = [bootstrap_list |-> <<>>, before_genesis |-> FALSE, end_timestamp |-> FALSE,
              enable_clock_synchronization |-> FALSE]
    /\ good = {}
    /\ InitRest
    /\ binder \in {NewBinder(max) : max \in MaxSizes}
    /\ blk = NoBlock

\* the bytes a hash is computed from: prev ‖ body, or body alone when prev
\* is None
M_Chained(prev, body) == body
Chained(prev, body) == IF prev = NoHash THEN body ELSE prev \o body

\* the server signs a body over the hash it holds, then holds the hash of
\* its signature.  Before the handshake it only refuses, once.
Server_Send ==
    /\ binder.stage \notin {"unused", "closed"}
    /\ Len(binder.server.sent) < MaxFrames
    /\ LET sv == binder.server
       IN  /\ IF sv.hs THEN ~sv.refused ELSE sv.sent = <<>>
           /\ \E b \in ServerBodies(binder.max) :
                /\ ~sv.hs => b = Body(1, 2)
                /\ LET sg == Sign(ServerKey, Hash(Chained(sv.prev, b)))
                   IN  binder' = [binder EXCEPT !.server =
                          [sv EXCEPT !.prev = Hash(sg),
                                     !.sent = Append(@, [sig |-> sg, len |-> Len(b),
                                                         body |-> b]),
                                     !.refused = ~sv.hs]]
    /\ UNCHANGED <<MainVars, blk>>

\* what the connection can deliver to one next(): a frame of the server as
\* it is (a replayed, an early or the right one), a frame of the server with
\* another body or another length, a frame signed with another key
Deliveries ==
    LET sent == binder.server.sent
        bodies == ServerBodies(binder.max) \cup {Body(binder.max + 1, 1)}
    IN  {[sig |-> sent[i].sig, len |-> sent[i].len, body |-> sent[i].body, frame |-> i] :
            i \in 1 .. Len(sent)}
        \cup UNION {{[sig |-> sent[i].sig, len |-> Len(b), body |-> b, frame |-> 0] :
                        b \in bodies \ {sent[i].body}} : i \in 1 .. Len(sent)}
        \cup {[sig |-> Sign(OtherKey, Hash(Chained(binder.prev_message, b))),
               len |-> Len(b), body |-> b, frame |-> 0] : b \in bodies}

\* client.rs 158, 196, 345 and 55: where the caller can be after next()
\* ended.  A BootstrapError read in the ask loop is ReceivedError (276, 295)
\* or, while streaming, the bad-message error that is echoed (130).
M_AfterNext(stage, ret, msg) ==
    IF stage = "probe" /\ ret \in {"Ok", "TimedOut"} THEN {"handshake"}
    ELSE IF ret = "Ok" THEN {"loop"} ELSE {"echo"}
AfterNext(stage, ret, msg) ==
    IF ret = "Ok"
    THEN IF msg = "BootstrapError"
         THEN (IF stage = "loop" THEN {"echo", "closed"} ELSE {"closed"})
         ELSE IF stage = "probe" THEN {"echo"} ELSE {"loop"}
    ELSE IF stage = "probe" /\ ret = "TimedOut" THEN {"handshake"} ELSE {"echo"}

\* client.rs 340 and 454: where the caller is after send() ended
AfterSend(stage, ret) ==
    IF stage = "echo" THEN "closed" ELSE IF ret = "Ok" THEN "loop" ELSE "echo"

\* an operation ends with ret; the binder keeps what it holds
EndNext(b, ret, msg) ==
    \E st \in AfterNext(binder.stage, ret, msg) :
        binder' = [b EXCEPT !.op = "idle", !.ret = ret, !.msg = msg, !.stage = st]
EndSend(b, ret) ==
    [b EXCEPT !.op = "idle", !.ret = ret, !.stage = AfterSend(binder.stage, ret)]

\* the failures of a read or of a write on the duplex, and the timeout of
\* the caller that drops the future at this await
IoFailures == {"IoError", "TimedOut"}

\* the caller starts next(): client.rs 158 (error probe), 196 (clock), 345
\* and 55 (ask loop)
next_start ==
    /\ binder.stage \in {"probe", "clock", "loop"}
    /\ binder.op = "idle"
    /\ binder.ops < MaxOps
    /\ binder' = [binder EXCEPT !.op = "next_sig", !.ops = @ + 1, !.last = "next", !.ret = "",
                                !.msg = "", !.before = binder.prev_message,
                                !.out0 = Len(binder.out), !.frame = 0,
                                !.sig = <<>>, !.len = 0, !.body = <<>>]
    /\ UNCHANGED <<MainVars, blk>>

\* client_binder.rs 94-98: the read of the signature ends
next_sig ==
    /\ binder.op = "next_sig"
    /\ \/ \E e \in IoFailures : EndNext(binder, e, "")
       \/ \E f \in Deliveries :
            binder' = [binder EXCEPT !.op = "next_len", !.sig = f.sig, !.len = f.len,
                                    !.body = f.body, !.frame = f.frame]
    /\ UNCHANGED <<MainVars, blk>>

\* client_binder.rs 100-105 and 134-135 / 147-148: the read of the length
\* field ends; the length is checked, prev_message becomes the hash of the
\* signature and the read of the body starts
M_next_len ==
    /\ binder.op = "next_len"
    /\ \/ \E e \in IoFailures : EndNext(binder, e, "")
       \/ binder' = [binder EXCEPT !.op = "next_body", !.prev_message = Hash(binder.sig)]
    /\ UNCHANGED <<MainVars, blk>>
next_len ==
    /\ binder.op = "next_len"
    /\ \/ \E e \in IoFailures : EndNext(binder, e, "")
       \/ LET field == Digits(binder.len, be_bytes_min_length(binder.max))
              msg_len == from_be_bytes_min(field, binder.max)
          IN  IF ~msg_len.ok
              THEN EndNext(binder, "OversizeFrame", "")
              ELSE binder' = [binder EXCEPT !.op = "next_body",
                                            !.prev_message = Hash(binder.sig)]
    /\ UNCHANGED <<MainVars, blk>>

\* client_binder.rs 136-146 / 149-156: the read of the body ends; the
\* signature is verified over the hash of the old prev_message and the body
\* (of the body alone when there was none), the body is deserialized
next_body ==
    /\ binder.op = "next_body"
    /\ \/ \E e \in IoFailures : EndNext(binder, e, "")
       \/ LET msg_hash == Hash(Chained(binder.before, binder.body))
          IN  IF ~verify_signature(ServerKey, msg_hash, binder.sig)
              THEN EndNext(binder, "SignatureError", "")
              ELSE IF deserialize(binder.body) = "DeserializeError"
              THEN EndNext(binder, "DeserializeError", "")
              ELSE EndNext([binder EXCEPT !.accepted = Append(@, binder.frame)],
                           "Ok", deserialize(binder.body))
    /\ UNCHANGED <<MainVars, blk>>

\* client_binder.rs 72-89 called at client.rs 174: the version and the random
\* bytes are written, then prev_message is their hash; a failed write leaves
\* the binder as it was.  The server that reads them chains on the same hash.
\* The caller goes on to the clock, or fails on the ping (client.rs 187-192).
M_handshake ==
    /\ binder.stage = "handshake"
    /\ binder.op = "idle"
    /\ binder.ops < MaxOps
    /\ LET b == [binder EXCEPT !.ops = @ + 1, !.last = "handshake", !.op = "idle",
                               !.before = binder.prev_message, !.out0 = Len(binder.out)]
       IN  \/ \E e \in IoFailures : binder' = [b EXCEPT !.ret = e, !.stage = "echo"]
           \/ binder' = [b EXCEPT !.ret = "Ok", !.stage = "clock",
                                  !.out = Append(@, [f |-> "handshake", v |-> HandshakeBytes]),
                                  !.server = [@ EXCEPT !.hs = TRUE,
                                                       !.prev = Hash(HandshakeBytes)]]
    /\ UNCHANGED <<MainVars, blk>>
handshake ==
    /\ binder.stage = "handshake"
    /\ binder.op = "idle"
    /\ binder.ops < MaxOps
    /\ LET b == [binder EXCEPT !.ops = @ + 1, !.last = "handshake", !.op = "idle",
                               !.before = binder.prev_message, !.out0 = Len(binder.out)]
       IN  \/ \E e \in IoFailures : binder' = [b EXCEPT !.ret = e, !.stage = "echo"]
           \/ \E st \in {"clock", "echo"} :
              binder' = [b EXCEPT !.ret = "Ok", !.stage = st,
                                  !.out = Append(@, [f |-> "handshake", v |-> HandshakeBytes]),
                                  !.prev_message = Hash(HandshakeBytes),
                                  !.server = [@ EXCEPT !.hs = TRUE,
                                                       !.prev = Hash(HandshakeBytes)]]
    /\ UNCHANGED <<MainVars, blk>>

\* client_binder.rs 164-190 and 194, called at client.rs 340 (ask loop) and
\* 454 (error echo): the message is serialized and prev_message replaced;
\* with a previous hash the write of the old one starts, without one the
\* length is encoded at once
send_start ==
    /\ binder.stage \in {"loop", "echo"}
    /\ binder.op = "idle"
    /\ binder.ops < MaxOps
    /\ \E msg_bytes \in ClientBodies(binder.max) :
        LET b == [binder EXCEPT !.ops = @ + 1, !.last = "send", !.ret = "", !.msg = "",
                                !.before = binder.prev_message, !.out0 = Len(binder.out),
                                !.msg_bytes = msg_bytes]
        IN  IF binder.prev_message # NoHash
            THEN binder' = [b EXCEPT !.op = "send_prev",
                                     !.prev_message = Hash(binder.prev_message \o msg_bytes)]
            ELSE LET c == [b EXCEPT !.prev_message = Hash(msg_bytes)]
                 IN  IF to_be_bytes_min(Len(msg_bytes), binder.max).ok
                     THEN binder' = [c EXCEPT !.op = "send_len"]
                     ELSE binder' = EndSend(c, "OversizeFrame")
    /\ UNCHANGED <<MainVars, blk>>

\* client_binder.rs 184 and 194: the write of the old previous hash ends,
\* then the length is encoded
M_send_prev_written ==
    /\ binder.op = "send_prev"
    /\ \/ \E e \in IoFailures : binder' = EndSend(binder, e)
       \/ LET b == [binder EXCEPT !.out = Append(@, [f |-> "prev", v |-> binder.prev_message])]
          IN  IF to_be_bytes_min(Len(binder.msg_bytes), binder.max).ok
              THEN binder' = [b EXCEPT !.op = "send_len"]
              ELSE binder' = EndSend(b, "OversizeFrame")
    /\ UNCHANGED <<MainVars, blk>>
send_prev_written ==
    /\ binder.op = "send_prev"
    /\ \/ \E e \in IoFailures : binder' = EndSend(binder, e)
       \/ LET b == [binder EXCEPT !.out = Append(@, [f |-> "prev", v |-> binder.before])]
          IN  IF to_be_bytes_min(Len(binder.msg_bytes), binder.max).ok
              THEN binder' = [b EXCEPT !.op = "send_len"]
              ELSE binder' = EndSend(b, "OversizeFrame")
    /\ UNCHANGED <<MainVars, blk>>

\* client_binder.rs 195: the write of the length field ends
send_len_written ==
    /\ binder.op = "send_len"
    /\ \/ \E e \in IoFailures : binder' = EndSend(binder, e)
       \/ binder' = [binder EXCEPT
                        !.op = "send_body",
                        !.out = Append(@, [f |-> "len",
                                           v |-> to_be_bytes_min(Len(binder.msg_bytes),
                                                                 binder.max).bytes])]
    /\ UNCHANGED <<MainVars, blk>>

\* what a mirror server computes from the last frame on the wire: the hash
\* of the previous hash it received and of the body it received
MirrorOf(out) ==
    LET n == Len(out)
    IN  IF n >= 3 /\ out[n - 2].f = "prev" THEN Hash(out[n - 2].v \o out[n].v)
        ELSE Hash(out[n].v)

\* client_binder.rs 199-200: the write of the body ends.  The server that
\* receives the frame chains on the mirror hash when the previous hash it
\* received is the one it holds, and stops otherwise.
send_body_written ==
    /\ binder.op = "send_body"
    /\ \/ \E e \in IoFailures : binder' = EndSend(binder, e)
       \/ LET out == Append(binder.out, [f |-> "body", v |-> binder.msg_bytes])
              sv == binder.server
              in_sync == sv.hs /\ ~sv.refused /\ binder.before # NoHash
                         /\ sv.prev = binder.before
          IN  binder' = EndSend([binder EXCEPT
                            !.out = out,
                            !.server = [sv EXCEPT !.mirror = MirrorOf(out),
                                                  !.prev = IF in_sync THEN MirrorOf(out) ELSE @,
                                                  !.refused = ~in_sync]],
                          "Ok")
    /\ UNCHANGED <<MainVars, blk>>

BinderNext ==
    \/ Server_Send
    \/ next_start
    \/ next_sig
    \/ next_len
    \/ next_body
    \/ handshake
    \/ send_start
    \/ send_prev_written
    \/ send_len_written
    \/ send_body_written

BinderSpec == BinderInit /\ [][BinderNext]_vars

\* next() has ended, and the bytes of a frame of the server were delivered
\* to it
NextEnded == binder.op = "idle" /\ binder.last = "next"
NextReturned == NextEnded /\ binder.ret = "Ok"

\* C14: next() returns a message only if the signature of the frame signs
\* H(P ‖ body), P being the previous-message hash the binder held; the frames
\* whose messages were returned are the frames of the server in the order it
\* signed them, with none missing and none twice; and a frame of the server
\* delivered out of its turn and read to the end fails with the signature
\* error.
C14_ChainRejectsDeviation ==
    /\ NextReturned =>
            binder.sig = Sign(ServerKey, Hash(Chained(binder.before, binder.body)))
    /\ binder.accepted = [i \in 1 .. Len(binder.accepted) |-> i]
    /\ (NextEnded /\ binder.ret \notin IoFailures \cup {"Ok"}
            /\ binder.frame \notin {0, Len(binder.accepted) + 1})
        => binder.ret = "SignatureError"

\* the second frame of the server was delivered in place of the first (a
\* drop), and next() refused it
C14_Witness ==
    /\ NextEnded
    /\ binder.frame = 2
    /\ binder.accepted = <<>>
    /\ binder.ret = "SignatureError"

\* send() has ended
SendEnded == binder.op = "idle" /\ binder.last = "send"
SendReturned == SendEnded /\ binder.ret = "Ok"
\* what send() wrote
Written == SubSeq(binder.out, binder.out0 + 1, Len(binder.out))

\* C15: a successful send with a previous-message hash P present wrote P,
\* then the length of the body, then the body, and left H(P ‖ body) as the
\* previous-message hash; after every successful send a server that hashes
\* the previous hash and the body it received holds the value the client
\* holds, whatever sends and receives came before.
C15_SendMirrorsServer ==
    SendReturned =>
        /\ binder.server.mirror = binder.prev_message
        /\ binder.before # NoHash =>
            /\ Written = <<[f |-> "prev", v |-> binder.before],
                           [f |-> "len", v |-> Digits(Len(binder.msg_bytes),
                                                      be_bytes_min_length(binder.max))],
                           [f |-> "body", v |-> binder.msg_bytes]>>
            /\ binder.prev_message = Hash(binder.before \o binder.msg_bytes)

\* a send succeeded right after a message was received, so the hash it
\* wrote is the hash of the signature of that message
C15_Witness ==
    /\ SendReturned
    /\ binder.accepted # <<>>
    /\ binder.before = Hash(binder.sig)
    /\ binder.stage = "loop"

\* C16: the previous-message hash changes only with a complete transfer: a
\* next() that fails (read error, timeout, oversize length, signature) and a
\* send() that fails (oversize body, write error) leave it as it was, and a
\* send() that fails on an oversize body has written no byte.
C16_HashAtomicWithTransfer ==
    /\ (NextEnded /\ binder.ret # "Ok") => binder.prev_message = binder.before
    /\ (SendEnded /\ binder.ret # "Ok") => binder.prev_message = binder.before
    /\ (SendEnded /\ binder.ret = "OversizeFrame") => Len(binder.out) = binder.out0

\* the fields of one kind written on the wire by the client
FieldsWritten(kind) == {binder.out[i].v : i \in {j \in 1 .. Len(binder.out) : binder.out[j].f = kind}}

\* C17: a length that next() accepts and a length that send() writes is at
\* most max_message_size and takes W bytes, W the least number of bytes
\* that hold max_message_size; a received length of max_message_size + 1
\* ends next() with the oversize error before the read of the body starts
\* (only a smaller or equal length gets there), a received length of at most
\* max_message_size never does; send() writes no body longer than
\* max_message_size.
C17_LengthWithinMax ==
    LET W == be_bytes_min_length(binder.max)
    IN  /\ binder.op = "next_body" => binder.len <= binder.max
        /\ (NextEnded /\ binder.ret = "Ok") => binder.len <= binder.max
        /\ (NextEnded /\ binder.ret = "OversizeFrame") =>
                binder.len > binder.max /\ binder.prev_message = binder.before
        /\ (NextEnded /\ binder.len > binder.max /\ binder.ret \notin IoFailures) =>
                binder.ret = "OversizeFrame"
        /\ \A v \in FieldsWritten("len") : Len(v) = W /\ ValueOf(v) <= binder.max
        /\ \A v \in FieldsWritten("body") : Len(v) <= binder.max
        /\ Power(ByteBase, W) > binder.max
        /\ W > 1 => Power(ByteBase, W - 1) <= binder.max

\* a frame of exactly max_message_size bytes was received and returned
C17_Witness ==
    /\ NextReturned
    /\ binder.len = binder.max
    /\ Len(binder.body) = binder.max

\* next() is running
InNext == binder.op \in {"next_sig", "next_len", "next_body"}
HandshakeDone == FieldsWritten("handshake") # {}

\* C18 as stated: the first next() on a binder is called after handshake()
\* completed, so next() never reads a body with the previous-message hash
\* absent.
C18_FirstNextAfterHandshake ==
    /\ InNext => HandshakeDone
    /\ binder.op = "next_body" => binder.before # NoHash

\* C18: the first next() on a binder is the error probe, called before
\* handshake(), and it is the only one; a frame that arrives during the probe
\* is read on the path without previous hash, and a message the probe
\* returns ends the session; every next() after the probe is called after
\* handshake() completed and takes the chained path.
C18_OnlyProbeBeforeHandshake ==
    /\ (InNext /\ ~HandshakeDone) => (binder.stage = "probe" /\ binder.ops = 1)
    /\ (InNext /\ binder.stage # "probe") => (HandshakeDone /\ binder.before # NoHash)
    /\ (InNext /\ binder.stage = "probe") => binder.before = NoHash
    /\ (NextReturned /\ binder.before = NoHash) => binder.stage \in {"echo", "closed"}

\* the refusal of the server arrived during the probe, was verified over
\* H(body) alone and returned
C18_Witness ==
    /\ NextReturned
    /\ binder.before = NoHash
    /\ binder.msg = "BootstrapError"
    /\ binder.sig = Sign(ServerKey, Hash(binder.body))

\* the frames of the client on the wire: the places of their length fields
Frames == {i \in 1 .. Len(binder.out) : binder.out[i].f = "len"}
HasPrevHash(i) == i > 1 /\ binder.out[i - 1].f = "prev"
FirstAfterHandshake(i) ==
    \E h \in 1 .. i - 1 :
        /\ binder.out[h].f = "handshake"
        /\ \A j \in h + 1 .. i - 1 : binder.out[j].f # "len"

\* C19 as stated: of the frames written by send() on one connection, the
\* first one after the handshake has no PREV_HASH field and every other one
\* has it.
C19_OmittedOnFirstAfterHandshake ==
    \A i \in Frames : ~HasPrevHash(i) <=> FirstAfterHandshake(i)

\* C19: every frame written by send() after the handshake carries PREV_HASH,
\* the first one included; the
\* field is omitted only by a send() on a binder that holds no previous hash,
\* which is the error echo on a connection whose handshake did not complete
\* (the probe failed before its body read, or the handshake failed), the
\* first bytes written on that connection.
C19_OmittedOnlyWithoutHash ==
    /\ \A i \in Frames : (HandshakeDone \/ i > 1) => HasPrevHash(i)
    /\ \A i \in Frames : FirstAfterHandshake(i) => binder.out[i - 1].v # NoHash
    /\ (binder.last = "send" /\ binder.before = NoHash) =>
            /\ binder.ops \in {2, 3}
            /\ binder.stage \in {"echo", "closed"}
            /\ ~HandshakeDone
            /\ binder.accepted = <<>>

\* the error echo after a failed probe was written without PREV_HASH
C19_Witness ==
    /\ SendReturned
    /\ binder.before = NoHash
    /\ binder.out[1].f = "len"

(***************************************************************************)
(* Further properties of the session driver                                *)
(***************************************************************************)
\* C21: a BootstrapTime of an incompatible version ends the session with
\* IncompatibleVersionError in the clock phase, before the compensation is
\* stored and before the ask loop; the error is not returned by get_state,
\* which echoes it, sleeps and takes the next server of the list; and no step
\* of a session before its ask loop changes the final state, the cursor, the
\* compensation, the peers or the graph.
C21_IncompatibleVersionKeepsState ==
    [][/\ (err' = IncompatibleVersionError /\ err # IncompatibleVersionError) =>
            /\ pc = "clock" /\ pc' = "error_send"
            /\ ~facts'.comp_stored
            /\ wire' = Append(wire, BootstrapErrorMsg(IncompatibleVersionError))
            /\ UNCHANGED <<final_state, next_bootstrap_message, global_bootstrap_state>>
       /\ (pc \in {"connecting", "probe", "handshake", "clock"} /\ pc' # "loop") =>
            UNCHANGED <<final_state, next_bootstrap_message, global_bootstrap_state>>
       /\ (err = IncompatibleVersionError) =>
            /\ pc \in {"error_send", "sleeping"}
            /\ pc' \in {"error_send", "sleeping", "for_head"}
            /\ pc' = "for_head" => idx' = (IF idx < Len(shuffled_list) THEN idx + 1 ELSE 1)
            /\ UNCHANGED <<final_state, next_bootstrap_message, global_bootstrap_state>>
      ]_vars

\* a session ended on an incompatible version after an earlier session had
\* stored a part and a cursor
C21_Witness ==
    /\ err = IncompatibleVersionError
    /\ pc = "sleeping"
    /\ final_state.ledger # {}
    /\ next_bootstrap_message.cursor # AllAbsent

\* C22: with end_timestamp set the check precedes every connection attempt:
\* a reading past end_timestamp panics instead of connecting, a connection
\* is started only from a check that read a time not past it, and the panic
\* of that check is the only way the loop over the servers stops without
\* returning.
C22_EndTimestampOnlyStop ==
    [][/\ (pc = "for_head" /\ past_end') => (cfg.end_timestamp /\ pc' = "panicked")
       /\ (pc' = "connecting" /\ pc # "connecting") => (pc = "for_head" /\ ~past_end')
       /\ (pc' = "panicked" /\ pc # "panicked") =>
            (pc = "for_head" /\ cfg.end_timestamp /\ past_end')
      ]_vars

\* C24: the error probe has three outcomes: its timeout leads to the
\* handshake; a BootstrapError ends the session with ReceivedError carrying
\* the text the server sent; any other message ends it with
\* UnexpectedServerMessage.
C24_ProbeThreeOutcomes ==
    [][pc = "probe" =>
        \/ pc' = "handshake" /\ facts'.probe_timed_out
        \/ /\ facts'.got_error_msg
           /\ err' = ReceivedError
           /\ facts'.text = facts'.server_text
        \/ /\ facts'.bad_msg # ""
           /\ err' = UnexpectedServerMessage
      ]_vars

\* C25: while the final state is streamed, a message other than
\* FinalStatePart, FinalStateFinished and SlotTooOld ends the session with
\* UnexpectedServerMessage and leaves the cursor as it was.
C25_BadMessageIsUnexpected ==
    [][(pc = "stream_read" /\ facts'.bad_msg # "") =>
        /\ err' = UnexpectedServerMessage
        /\ UNCHANGED next_bootstrap_message
      ]_vars

\* C27: when the roll-state changes of an entry of final_state_changes do
\* not apply, the session ends with an error that get_state handles like
\* every other session error (the guard dropped, the error echoed, the next
\* server taken); nothing panics.
C27_RollFailureEndsSession ==
    [][(pc = "apply_changes"
            /\ ~apply_final_state_changes(final_state, locals.part.final_state_changes).ok) =>
        /\ pc' = "error_send"
        /\ err' # ""
        /\ ~guard'
      ]_vars

\* C26: a FinalStatePart is applied under one hold of the writer guard, in
\* this order: the append of the ledger chunk, of the async pool chunk, of
\* the cycle chunk, of the deferred credits chunk, then the entries of
\* final_state_changes in the order of the list (for each entry the ledger
\* changes, the async pool changes, then the roll-state changes, at the slot
\* of the entry), and only then final_state.slot is set to the slot of the
\* part; when FinalStateFinished ends the streaming, final_state.slot is the
\* slot of the last part applied.
C26_PartAppliedInOrder ==
    [][LET fs == final_state
           ch == locals.part.final_state_changes
           bad == {i \in 1 .. Len(ch) : ~ch[i].roll_ok}
           Applying == {"apply_ledger", "apply_pool", "apply_cycle", "apply_credits",
                        "apply_changes", "set_slot", "set_cursor"}
       IN  /\ pc \in Applying => guard
           /\ (pc \notin Applying /\ pc' \in Applying) => (pc' = "apply_ledger" /\ ~guard)
           /\ pc = "apply_ledger" => pc' \in {"apply_pool", "error_send"}
           /\ pc = "apply_pool" =>
                (pc' \in {"apply_cycle", "error_send"} /\ locals.part.ledger_data \in fs.ledger)
           /\ pc = "apply_cycle" =>
                (pc' \in {"apply_credits", "error_send"}
                    /\ locals.part.async_pool_part \in fs.async_pool)
           /\ pc = "apply_credits" =>
                (pc' \in {"apply_changes", "error_send"}
                    /\ locals.part.pos_cycle_part \in fs.cycle_history)
           /\ pc = "apply_changes" =>
                /\ locals.part.pos_credits_part \in fs.deferred_credits
                /\ UNCHANGED <<fs.slot, fs.ledger, fs.async_pool, fs.cycle_history,
                               fs.deferred_credits>>
                /\ IF bad = {}
                   THEN /\ pc' = "set_slot"
                        /\ ch # <<>> =>
                            /\ final_state'.ledger_changes = ch[Len(ch)].changes_slot
                            /\ final_state'.pool_changes = ch[Len(ch)].changes_slot
                            /\ final_state'.roll_changes = ch[Len(ch)].changes_slot
                   ELSE LET k == CHOOSE i \in bad : \A j \in bad : i <= j
                        IN  /\ final_state'.ledger_changes = ch[k].changes_slot
                            /\ final_state'.pool_changes = ch[k].changes_slot
                            /\ final_state'.roll_changes =
                                   (IF k > 1 THEN ch[k - 1].changes_slot ELSE fs.roll_changes)
           /\ pc = "set_slot" =>
                /\ pc' = "set_cursor"
                /\ final_state' = [fs EXCEPT !.slot = locals.part.slot]
           /\ final_state'.slot # fs.slot => pc = "set_slot"
           /\ <<final_state'.ledger_changes, final_state'.pool_changes,
                 final_state'.roll_changes>>
                # <<fs.ledger_changes, fs.pool_changes, fs.roll_changes>> => pc = "apply_changes"
           /\ (pc = "stream_read" /\ next_bootstrap_message'.kind = "AskBootstrapPeers"
                    /\ applied.n > 0) =>
                final_state'.slot = applied.cursor.slot
      ]_vars

\* the streaming completed after a part with two entries, applied in order
C26_Witness ==
    /\ pc = "loop"
    /\ next_bootstrap_message.kind = "AskBootstrapPeers"
    /\ final_state.slot = 2
    /\ final_state.roll_changes = 1

\* C28: handshake(version) writes exactly the bytes B (the serialized version
\* followed by the random bytes) to the duplex, reads nothing, and when the
\* write succeeds sets prev_message to Some(H(B)) whatever it held before; when
\* the write fails it returns the error and prev_message is as it was.
C28_HandshakeWritesAndSetsHash ==
    [][(binder.stage = "handshake" /\ binder'.ops # binder.ops) =>
        /\ binder'.last = "handshake"
        /\ binder'.sig = binder.sig
        /\ binder'.len = binder.len
        /\ binder'.body = binder.body
        /\ binder'.frame = binder.frame
        /\ binder'.accepted = binder.accepted
        /\ binder'.server.sent = binder.server.sent
        /\ IF binder'.ret = "Ok"
           THEN /\ binder'.out = Append(binder.out, [f |-> "handshake", v |-> HandshakeBytes])
                /\ binder'.prev_message = Hash(HandshakeBytes)
           ELSE /\ binder'.ret \in IoFailures
                /\ binder'.out = binder.out
                /\ binder'.prev_message = binder.prev_message
      ]_vars

\* a handshake that succeeded on a binder whose prev_message was already set by
\* the probe (the probe had timed out after reading a signature)
C28_Witness ==
    /\ binder.last = "handshake"
    /\ binder.ret = "Ok"
    /\ binder.before # NoHash
    /\ binder.before # Hash(HandshakeBytes)
    /\ binder.prev_message = Hash(HandshakeBytes)

\* C29: within get_state next_bootstrap_message is always one of
\* AskFinalStatePart, AskBootstrapPeers, AskConsensusState or BootstrapSuccess,
\* never BootstrapError, so the panic branch of the ask loop is never taken,
\* whatever the servers reply and however the sessions fail.
C29_NeverBootstrapError ==
    [][/\ next_bootstrap_message.kind \in AskKinds
       /\ next_bootstrap_message'.kind \in AskKinds
       /\ pc = "loop" => pc' # "panicked"
      ]_vars

\* the ask loop of a later session, entered after a SlotTooOld restart and a
\* failed session
C29_Witness ==
    /\ pc = "loop"
    /\ budget > 0
    /\ idx > 1
    /\ next_bootstrap_message.kind = "AskBootstrapPeers"

\* C30: within one get_state call the phase of next_bootstrap_message only
\* moves forward over all the sessions (AskFinalStatePart, AskBootstrapPeers,
\* AskConsensusState, BootstrapSuccess): once FinalStateFinished has been
\* received no session writes AskFinalStatePart or changes the final-state
\* store again, and the BootstrapSuccess case never takes its fall-back
\* branches (graph or peers absent).
C30_PhaseOnlyForward ==
    [][LET rank == [k \in AskKinds |->
                       CASE k = "AskFinalStatePart" -> 1
                         [] k = "AskBootstrapPeers" -> 2
                         [] k = "AskConsensusState" -> 3
                         [] k = "BootstrapSuccess" -> 4]
           m == next_bootstrap_message
       IN  /\ rank[m'.kind] >= rank[m.kind]
           /\ m.kind # "AskFinalStatePart" =>
                /\ final_state' = final_state
                /\ ~guard'
                /\ (wire' # wire /\ wire' # <<>>) =>
                        wire'[Len(wire')].kind # "AskFinalStatePart"
           /\ m.kind = "AskBootstrapPeers" => global_bootstrap_state.peers = None
           /\ m.kind = "BootstrapSuccess" =>
                /\ global_bootstrap_state.peers # None
                /\ global_bootstrap_state.graph # None
                /\ pc = "loop" => pc' = "success_send"
      ]_vars

\* a session that starts with AskConsensusState: the streaming and the peers
\* were completed by earlier sessions
C30_Witness ==
    /\ pc = "graph_send"
    /\ Len(wire) = 2
    /\ wire[2] = AskConsensusState
    /\ applied.n > 0
    /\ final_state.ledger # {}

(***************************************************************************)
(* models/src/block.rs: the compact encoding of a block                    *)
(*                                                                         *)
(* A buffer is a sequence of fields, one element per fixed-size field of   *)
(* the encoding (a public key, a hash, a signature, a byte of a length);   *)
(* a field is a sequence of integers.  Lengths and max_block_size count    *)
(* fields.  A reader takes the fields in the order of its reads; it has no *)
(* means to tell a hash from a signature, so it takes any field where it   *)
(* expects one of those, and it rejects a field that is not a byte where   *)
(* it expects a length or a flag.                                          *)
(***************************************************************************)
\* the most parents a header of the model holds
MaxParents == 3
\* the most operations a block of the model holds
MaxBlockOps == 2

\* the bytes of a buffer, as Hash::hash reads them
RECURSIVE Flat(_)
Flat(buffer) == IF buffer = <<>> THEN <<>> ELSE Head(buffer) \o Flat(Tail(buffer))

\* SerializationContext: the three fields block.rs reads
BlockContexts == [parent_count : {1, 2}, max_block_size : {8, 30}, max_block_operations : {1, 4}]

\* the BlockHeaderContent values of the model; creator is the public key of
\* the private key that signs
BlockHeaderContents(private_key) ==
    [creator : {<<private_key>>},
     slot : {[period |-> 0, thread |-> 0], [period |-> 1, thread |-> 1]},
     parents : UNION {[1 .. k -> {<<1>>, <<2>>}] : k \in 0 .. MaxParents},
     operation_merkle_root : {<<1>>}]

\* an Operation, one field on the wire
AnOperation == <<3>>

\* a field that is one byte
IsByte(field) == Len(field) = 1 /\ field[1] \in 0 .. ByteBase - 1

\* BlockHeaderContent::to_bytes_compact: creator, slot, the flag (0 without
\* parents, 1 with), every parent, the merkle root
BlockHeaderContent_to_bytes_compact(c) ==
    <<c.creator, <<c.slot.period>>, <<c.slot.thread>>,
      IF Len(c.parents) = 0 THEN <<0>> ELSE <<1>>>>
        \o c.parents \o <<c.operation_merkle_root>>

\* variant of BlockHeaderContent_from_bytes_compact: every flag other than 0
\* is read as 1
M_BlockHeaderContent_from_bytes_compact(buffer, context) ==
    LET fail == [ok |-> FALSE, content |-> <<>>, delta |-> 0]
    IN  IF Len(buffer) < 4 \/ \E i \in 1 .. 4 : ~IsByte(buffer[i]) THEN fail
        ELSE LET n == IF buffer[4][1] # 0 THEN context.parent_count ELSE 0
             IN  IF Len(buffer) < 5 + n THEN fail
                 ELSE [ok |-> TRUE,
                       content |-> [creator |-> buffer[1],
                                    slot |-> [period |-> buffer[2][1], thread |-> buffer[3][1]],
                                    parents |-> SubSeq(buffer, 5, 4 + n),
                                    operation_merkle_root |-> buffer[5 + n]],
                       delta |-> 5 + n]

\* BlockHeaderContent::from_bytes_compact: with the flag 1 it reads
\* context.parent_count parents, with 0 none, and rejects another flag
BlockHeaderContent_from_bytes_compact(buffer, context) ==
    LET fail == [ok |-> FALSE, content |-> <<>>, delta |-> 0]
    IN  IF Len(buffer) < 4 \/ \E i \in 1 .. 3 : ~IsByte(buffer[i]) THEN fail
        ELSE IF ~IsByte(buffer[4]) \/ buffer[4][1] \notin {0, 1} THEN fail
        ELSE LET n == IF buffer[4][1] = 1 THEN context.parent_count ELSE 0
             IN  IF Len(buffer) < 5 + n THEN fail
                 ELSE [ok |-> TRUE,
                       content |-> [creator |-> buffer[1],
                                    slot |-> [period |-> buffer[2][1], thread |-> buffer[3][1]],
                                    parents |-> SubSeq(buffer, 5, 4 + n),
                                    operation_merkle_root |-> buffer[5 + n]],
                       delta |-> 5 + n]

\* BlockHeader::to_bytes_compact: the content, then the signature
BlockHeader_to_bytes_compact(header) ==
    Append(BlockHeaderContent_to_bytes_compact(header.content), header.signature)

\* BlockHeader::from_bytes_compact
BlockHeader_from_bytes_compact(buffer, context) ==
    LET c == BlockHeaderContent_from_bytes_compact(buffer, context)
    IN  IF ~c.ok \/ Len(buffer) < c.delta + 1
        THEN [ok |-> FALSE, header |-> <<>>, delta |-> 0]
        ELSE [ok |-> TRUE,
              header |-> [content |-> c.content, signature |-> buffer[c.delta + 1]],
              delta |-> c.delta + 1]

\* BlockHeaderContent::compute_hash
compute_hash(content) == Hash(Flat(BlockHeaderContent_to_bytes_compact(content)))

\* BlockHeader::get_signature_message: Hash([slot, hash])
get_signature_message(slot, hash) == Hash(<<slot.period, slot.thread>> \o hash)

\* BlockHeader::compute_block_id
compute_block_id(header) == Hash(Flat(BlockHeader_to_bytes_compact(header)))

\* BlockHeader::new_signed
new_signed(private_key, content) ==
    LET header == [content |-> content,
                   signature |-> Sign(private_key,
                                      get_signature_message(content.slot, compute_hash(content)))]
    IN  [id |-> compute_block_id(header), header |-> header]

\* BlockHeader::verify_integrity: the signature is checked against the creator
\* of the content, then the id is computed
verify_integrity(header) ==
    LET hash == compute_hash(header.content)
    IN  IF verify_signature(header.content.creator[1],
                            get_signature_message(header.content.slot, hash),
                            header.signature)
        THEN [ok |-> TRUE, id |-> compute_block_id(header)]
        ELSE [ok |-> FALSE, id |-> <<>>]

\* Block::to_bytes_compact: the header, the operation count on the bytes of
\* max_block_operations, the operations
Block_to_bytes_compact(block, context) ==
    LET count == to_be_bytes_min(Len(block.operations), context.max_block_operations)
    IN  IF ~count.ok THEN [ok |-> FALSE, bytes |-> <<>>]
        ELSE [ok |-> TRUE,
              bytes |-> BlockHeader_to_bytes_compact(block.header)
                            \o [i \in 1 .. Len(count.bytes) |-> <<count.bytes[i]>>]
                            \o block.operations]

\* Block::from_bytes_compact: the cursor is compared with max_block_size
\* after the header, after the count and after each operation
Block_from_bytes_compact(buffer, context) ==
    LET fail == [ok |-> FALSE, block |-> <<>>, size |-> 0]
        h == BlockHeader_from_bytes_compact(buffer, context)
        w == be_bytes_min_length(context.max_block_operations)
    IN  IF ~h.ok \/ h.delta > context.max_block_size THEN fail
        ELSE IF Len(buffer) < h.delta + w
                    \/ \E i \in 1 .. w : ~IsByte(buffer[h.delta + i]) THEN fail
        ELSE LET count == from_be_bytes_min([i \in 1 .. w |-> buffer[h.delta + i][1]],
                                            context.max_block_operations)
                 cursor == h.delta + w
             IN  IF ~count.ok \/ cursor > context.max_block_size THEN fail
                 ELSE IF Len(buffer) < cursor + count.value
                            \/ \E i \in 1 .. count.value : buffer[cursor + i] # AnOperation
                            \/ (count.value > 0 /\ cursor + count.value > context.max_block_size)
                      THEN fail
                      ELSE [ok |-> TRUE,
                            block |-> [header |-> h.header,
                                       operations |-> SubSeq(buffer, cursor + 1,
                                                             cursor + count.value)],
                            size |-> cursor + count.value]

\* test_block_serialization, for any context, key, content and operations
BlockInit ==
    /\ cfg = [bootstrap_list |-> <<>>, before_genesis |-> FALSE, end_timestamp |-> FALSE,
              enable_clock_synchronization |-> FALSE]
    /\ good = {}
    /\ InitRest
    /\ binder = NoBinder
    /\ \E context \in BlockContexts, private_key \in {ServerKey, OtherKey} :
        \E content \in BlockHeaderContents(private_key), n \in 0 .. MaxBlockOps :
            blk = [stage |-> "start", context |-> context, private_key |-> private_key,
                   content |-> content, operations |-> [i \in 1 .. n |-> AnOperation]]

\* block.rs 364-385: the header is signed and the block built
Block_New ==
    /\ blk.stage = "start"
    /\ LET r == new_signed(blk.private_key, blk.content)
       IN  blk' = [stage |-> "signed", context |-> blk.context, orig_id |-> r.id,
                   orig_block |-> [header |-> r.header, operations |-> blk.operations]]
    /\ UNCHANGED <<MainVars, binder>>

\* block.rs 388: to_bytes_compact
Block_Serialize ==
    /\ blk.stage = "signed"
    /\ LET r == Block_to_bytes_compact(blk.orig_block, blk.context)
       IN  IF r.ok
           THEN blk' = [blk EXCEPT !.stage = "serialized"] @@ [orig_bytes |-> r.bytes]
           ELSE blk' = [blk EXCEPT !.stage = "serialize_failed"]
    /\ UNCHANGED <<MainVars, binder>>

\* block.rs 391-392: from_bytes_compact on the bytes just written
Block_Deserialize ==
    /\ blk.stage = "serialized"
    /\ LET r == Block_from_bytes_compact(blk.orig_bytes, blk.context)
       IN  IF r.ok
           THEN blk' = [blk EXCEPT !.stage = "deserialized"]
                            @@ [res_block |-> r.block, res_size |-> r.size]
           ELSE blk' = [blk EXCEPT !.stage = "deserialize_failed"]
    /\ UNCHANGED <<MainVars, binder>>

\* block.rs 395-396: verify_integrity and compute_block_id of the result
Block_Verify ==
    /\ blk.stage = "deserialized"
    /\ blk' = [blk EXCEPT !.stage = "verified"]
                @@ [res_id |-> verify_integrity(blk.res_block.header),
                    generated_res_id |-> compute_block_id(blk.res_block.header)]
    /\ UNCHANGED <<MainVars, binder>>

BlockNext == Block_New \/ Block_Serialize \/ Block_Deserialize \/ Block_Verify

BlockSpec == BlockInit /\ [][BlockNext]_vars

(***************************************************************************)
(* models/src/block.rs: the header content on its own                      *)
(***************************************************************************)
\* a context and a content, as in BlockInit
ContentInit ==
    /\ cfg = [bootstrap_list |-> <<>>, before_genesis |-> FALSE, end_timestamp |-> FALSE,
              enable_clock_synchronization |-> FALSE]
    /\ good = {}
    /\ InitRest
    /\ binder = NoBinder
    /\ \E context \in BlockContexts, private_key \in {ServerKey, OtherKey} :
        \E content \in BlockHeaderContents(private_key) :
            blk = [stage |-> "content", context |-> context, content |-> content]

\* block.rs 263-287: the content is serialized
Content_Serialize ==
    /\ blk.stage = "content"
    /\ blk' = [stage |-> "content_bytes", context |-> blk.context, content |-> blk.content,
               bytes |-> BlockHeaderContent_to_bytes_compact(blk.content), same |-> TRUE]
    /\ UNCHANGED <<MainVars, binder>>

\* block.rs 291-294: the buffer the reader is given need not come from the
\* writer; here its flag byte is another one
Content_OtherFlag ==
    /\ blk.stage = "content_bytes"
    /\ blk.same
    /\ \E flag \in (0 .. ByteBase - 1) \ {blk.bytes[4][1]} :
        blk' = [blk EXCEPT !.bytes[4] = <<flag>>, !.same = FALSE]
    /\ UNCHANGED <<MainVars, binder>>

\* block.rs 291-337: the buffer is deserialized under the same context
Content_Deserialize ==
    /\ blk.stage = "content_bytes"
    /\ blk' = [blk EXCEPT !.stage = "content_read"]
                @@ [res |-> BlockHeaderContent_from_bytes_compact(blk.bytes, blk.context)]
    /\ UNCHANGED <<MainVars, binder>>

ContentNext == Content_Serialize \/ Content_OtherFlag \/ Content_Deserialize

ContentSpec == ContentInit /\ [][ContentNext]_vars

\* C23: a block serialized with to_bytes_compact and deserialized with
\* from_bytes_compact under the same context is read back over exactly the
\* serialized length, its header passes verify_integrity with the id that
\* new_signed returned, compute_block_id gives the same id, and the
\* signature is the original one.
C23_BlockRoundTrip ==
    /\ blk.stage # "deserialize_failed"
    /\ blk.stage \in {"deserialized", "verified"} =>
        /\ blk.res_size = Len(blk.orig_bytes)
        /\ blk.res_block.header.signature = blk.orig_block.header.signature
    /\ blk.stage = "verified" =>
        /\ blk.res_id.ok
        /\ blk.res_id.id = blk.orig_id
        /\ blk.generated_res_id = blk.orig_id

\* C31: when one of the appends of a FinalStatePart fails (ledger, async
\* pool, PoS cycles, deferred credits) the session ends with the error of
\* that append, the resume cursor keeps the value it had and final_state.slot
\* is not changed, and the appends of the same part that had succeeded stay in
\* the store: nothing is taken back, then or later.
C31_FailedAppendKeepsEarlier ==
    [][LET fs == final_state
           part == locals.part
           failing ==
               \/ pc = "apply_ledger" /\ ~set_ledger_part(fs, part.ledger_data).ok
               \/ pc = "apply_pool" /\ ~set_pool_part(fs, part.async_pool_part).ok
               \/ pc = "apply_cycle" /\ ~set_cycle_history_part(fs, part.pos_cycle_part).ok
               \/ pc = "apply_credits"
                    /\ ~set_deferred_credits_part(fs, part.pos_credits_part).ok
       IN  /\ failing =>
                /\ err' = (CASE pc = "apply_ledger" -> "LedgerError"
                             [] pc = "apply_pool" -> "AsyncPoolError"
                             [] OTHER -> "ProofOfStakeError")
                /\ pc' = "error_send"
                /\ ~guard'
                /\ next_bootstrap_message' = next_bootstrap_message
                /\ final_state' = fs
                /\ applied' = applied
                /\ pc # "apply_ledger" => part.ledger_data \in final_state'.ledger
                /\ pc \in {"apply_cycle", "apply_credits"} =>
                        part.async_pool_part \in final_state'.async_pool
                /\ pc = "apply_credits" => part.pos_cycle_part \in final_state'.cycle_history
           /\ fs.ledger \subseteq final_state'.ledger
           /\ fs.async_pool \subseteq final_state'.async_pool
           /\ fs.cycle_history \subseteq final_state'.cycle_history
           /\ fs.deferred_credits \subseteq final_state'.deferred_credits
      ]_vars

\* the first part failed on its deferred credits: ledger, pool and cycles of
\* the part are stored, the slot and the cursor are as at the start
C31_Witness ==
    /\ err = "ProofOfStakeError"
    /\ pc = "error_send"
    /\ final_state.ledger # {}
    /\ final_state.async_pool # {}
    /\ final_state.cycle_history # {}
    /\ final_state.deferred_credits = {}
    /\ final_state.slot = None
    /\ next_bootstrap_message = AskFinalStatePart(AllAbsent)

\* C32: a BlockHeaderContent serialized and deserialized under the same
\* context gives back the original parents and is read over exactly the
\* serialized bytes if and only if parents is empty or holds exactly
\* context.parent_count entries: the writer puts a one-byte flag (0 without
\* parents, 1 with) followed by every parent it holds, the reader takes
\* exactly parent_count parents when the flag is 1, none when it is 0, and
\* rejects every other flag.
C32_ParentsRoundTrip ==
    /\ (blk.stage \in {"content_bytes", "content_read"} /\ blk.same) =>
        LET parents == blk.content.parents
        IN  /\ Len(blk.bytes) = 5 + Len(parents)
            /\ blk.bytes[4] = (IF parents = <<>> THEN <<0>> ELSE <<1>>)
            /\ SubSeq(blk.bytes, 5, 4 + Len(parents)) = parents
    /\ blk.stage = "content_read" =>
        /\ blk.same =>
            ((/\ blk.res.ok
              /\ blk.res.content.parents = blk.content.parents
              /\ blk.res.delta = Len(blk.bytes))
                <=> Len(blk.content.parents) \in {0, blk.context.parent_count})
        /\ (blk.same /\ blk.res.ok /\ blk.res.delta = Len(blk.bytes)) =>
                blk.res.content = blk.content
        /\ blk.bytes[4] \notin {<<0>>, <<1>>} => ~blk.res.ok
        /\ (blk.res.ok /\ blk.bytes[4] = <<1>>) =>
            /\ Len(blk.res.content.parents) = blk.context.parent_count
            /\ blk.res.delta = 5 + blk.context.parent_count
        /\ (blk.res.ok /\ blk.bytes[4] = <<0>>) =>
            /\ blk.res.content.parents = <<>>
            /\ blk.res.delta = 5

\* a content with exactly parent_count = 2 parents, read back as written
C32_Witness ==
    /\ blk.stage = "content_read"
    /\ blk.same
    /\ blk.context.parent_count = 2
    /\ Len(blk.content.parents) = 2
    /\ blk.res.ok
    /\ blk.res.content.parents = blk.content.parents
    /\ blk.res.delta = Len(blk.bytes)

====
